---- MODULE Spec2Model ----
(***************************************************************************)
(* A model of tcp-lb-go: the token-bucket rate limiter (lib/rate-limiter), *)
(* the least-connections registry and the routing of one connection        *)
(* (lib/load-balancer).                                                    *)
(*                                                                         *)
(* Time is counted in ticks, TicksPerSecond ticks to the second.  The      *)
(* float64 quantities of the token bucket (refillAmount, fractionalTokens) *)
(* are held exactly, as integer multiples of 1/TicksPerSecond token; the   *)
(* model stays in the range where uint64(refillAmount) is representable.   *)
(***************************************************************************)
EXTENDS Integers, Sequences, FiniteSets, TLC

(* ------------------------------ bounds --------------------------------- *)
NumTasks == 2
NumBackends == 2
NumClients == 2
TicksPerSecond == 3
MaxNow == 6
MaxCapacity == 3
MaxRate == 2
MaxRepeat == 3
MaxCalls == 3
MaxFaults == 1

\* sync.Mutex, unlocked
NoTask == 0
\* a nil *Backend
NoBackend == 0

Tasks == 1..NumTasks
BackendIds == 1..NumBackends
Clients == 1..NumClients
\* no instant: before every tick
NoTime == 0 - 1

VARIABLES
    now,                \* time.Now(), in ticks
    bucketCapacity,     \* rateLimiter.bucketCapacity
    bucketRefillRate,   \* rateLimiter.bucketRefillRate
    clientBuckets,      \* rateLimiter.clientBuckets: clientID -> tokenBucket
    rlMu,               \* rateLimiter.mu: the task holding it, or NoTask
    backends,           \* LoadBalancer.backends, in the order of registration
    connections,        \* Backend.connections of every Backend
    lbMu,               \* LoadBalancer.mu: the task holding it, or NoTask
    frame,              \* per task: where it is in its call, and the call's locals
    lastCall,           \* the last call that returned, and what it returned
    hist,               \* per client: what has been granted and credited so far
    handler,            \* per task: where it is in Server.handleConnection
    shutdown,           \* Server.shutdown
    listener,           \* Server.listener: "nil", "open" or "closed"
    wg,                 \* Server.wg: the WaitGroup's counter
    acceptLoop,         \* the goroutine running Server.acceptConnections
    stopCall,           \* the call of Server.Stop
    done,               \* Stop's channel done: closed or not
    exited,             \* the process has exited
    main                \* the goroutine running main, and the exit code

rlVars == <<now, bucketCapacity, bucketRefillRate, clientBuckets, rlMu>>
lbVars == <<backends, connections, lbMu, frame>>
histVars == <<lastCall, hist>>
srvVars == <<handler, shutdown, listener, wg, acceptLoop, stopCall, done, exited, main>>
vars == <<rlVars, lbVars, histVars, srvVars>>

(* --------------------------- token bucket ------------------------------ *)
min(a, b) == IF a < b THEN a ELSE b

newTokenBucket(capacity, refillRate, t) ==
    [capacity         |-> capacity,
     tokens           |-> capacity,
     refillRate       |-> refillRate,
     fractionalTokens |-> 0,
     lastRefillTime   |-> t]

\* elapsed * float64(tb.refillRate), in 1/TicksPerSecond token
refillAmount(tb, t) == (t - tb.lastRefillTime) * tb.refillRate

\* uint64(refillAmount)
wholePart(amount) == amount \div TicksPerSecond

\* the residue before the call forgotten: = in place of +=
accumulated_forgotten(tb, t) ==
    refillAmount(tb, t) - wholePart(refillAmount(tb, t)) * TicksPerSecond

\* tb.fractionalTokens += refillAmount - float64(wholeTokens)
accumulated(tb, t) ==
    tb.fractionalTokens
        + (refillAmount(tb, t) - wholePart(refillAmount(tb, t)) * TicksPerSecond)

\* if tb.fractionalTokens >= 1 { wholeTokens++; tb.fractionalTokens-- }
carried(tb, t) == accumulated(tb, t) >= TicksPerSecond

wholeTokens(tb, t) ==
    IF carried(tb, t)
    THEN wholePart(refillAmount(tb, t)) + 1
    ELSE wholePart(refillAmount(tb, t))

residue(tb, t) ==
    IF carried(tb, t)
    THEN accumulated(tb, t) - TicksPerSecond
    ELSE accumulated(tb, t)

\* the capacity not applied
credit_unclamped(capacity, tokens, whole) == tokens + whole

\* tb.tokens = min(tb.capacity, tb.tokens+wholeTokens)
credit(capacity, tokens, whole) == min(capacity, tokens + whole)

\* lastRefillTime left as it was
refillTokens_staleTime(tb, t) ==
    IF refillAmount(tb, t) > 0
    THEN [tb EXCEPT !.fractionalTokens = residue(tb, t),
                    !.tokens = credit(tb.capacity, tb.tokens, wholeTokens(tb, t))]
    ELSE [tb EXCEPT !.fractionalTokens = residue(tb, t)]

refillTokens(tb, t) ==
    IF refillAmount(tb, t) > 0
    THEN [tb EXCEPT !.fractionalTokens = residue(tb, t),
                    !.tokens = credit(tb.capacity, tb.tokens, wholeTokens(tb, t)),
                    !.lastRefillTime = t]
    ELSE [tb EXCEPT !.fractionalTokens = residue(tb, t)]

\* the token granted is not taken out of the bucket
takeToken_kept(tb, t) ==
    LET r == refillTokens(tb, t)
    IN  [tb |-> r, ok |-> r.tokens # 0]

\* the bucket after the call, and the value returned
takeToken(tb, t) ==
    LET r == refillTokens(tb, t)
    IN  IF r.tokens = 0
        THEN [tb |-> r, ok |-> FALSE]
        ELSE [tb |-> [r EXCEPT !.tokens = r.tokens - 1], ok |-> TRUE]

(* --------------------------- rate limiter ------------------------------ *)
\* a store that writes every entry of the map
put_all(m, k, v) == [x \in DOMAIN m \cup {k} |-> v]

\* rl.clientBuckets[clientID] = bucket
put(m, k, v) == [x \in DOMAIN m \cup {k} |-> IF x = k THEN v ELSE m[x]]

\* the bucket allowConnection works on: the client's, or a new one
bucketFor(buckets, clientID, capacity, refillRate, t) ==
    IF clientID \in DOMAIN buckets
    THEN buckets[clientID]
    ELSE newTokenBucket(capacity, refillRate, t)

\* the map after the call, and the value returned
allowConnection(buckets, clientID, capacity, refillRate, t) ==
    LET r == takeToken(bucketFor(buckets, clientID, capacity, refillRate, t), t)
    IN  [buckets |-> put(buckets, clientID, r.tb), ok |-> r.ok]

(* ------------------- history of the calls on a bucket ------------------ *)
\* hist[c], kept beside the program's state and never read by it:
\*   createdAt  when c's bucket was created (NoTime: not yet)
\*   granted    allowConnection(c) calls that returned true at createdAt
\*   deniedAt   when the last allowConnection(c) was made, if it returned false
\*   recovered  the last allowConnection(c) returned true and the one before
\*              it false
\*   since, residue0, credited
\*              the whole tokens refillTokens has added since the instant
\*              `since`, at which the residue was residue0; the count starts
\*              again whenever a refill leaves the bucket at its capacity
\*   winStart, winK
\*              an observation window opened on an empty bucket, and the
\*              allowConnection(c) calls that returned true inside it
\*   called     an allowConnection(c) call has taken rl.mu
\*   created    how many buckets have been made for c
\*   batchK, batchN, batchTrue
\*              the tokens c's bucket held when the clock last advanced,
\*              the allowConnection(c) calls that have returned since, and
\*              those of them that returned true
NoHist ==
    [createdAt |-> NoTime, granted |-> 0, deniedAt |-> NoTime,
     recovered |-> FALSE,
     since |-> NoTime, residue0 |-> 0, credited |-> 0,
     winStart |-> NoTime, winK |-> 0,
     called |-> FALSE, created |-> 0,
     batchK |-> 0, batchN |-> 0, batchTrue |-> 0]

\* hist[c] after a refillTokens that took the bucket from tb to r at time t
histRefill(h, tb, r, t) ==
    IF r.tokens >= r.capacity
    THEN [h EXCEPT !.since = r.lastRefillTime,
                   !.residue0 = r.fractionalTokens,
                   !.credited = 0]
    ELSE [h EXCEPT !.credited = @ + (r.tokens - tb.tokens)]

\* hist[c] after an allowConnection(c) at time t that returned ok
histAllow(h, existed, tb, t, ok) ==
    LET h0 == IF existed THEN h
              ELSE [NoHist EXCEPT !.createdAt = t, !.since = t]
        h1 == histRefill(h0, tb, refillTokens(tb, t), t)
    IN  [h1 EXCEPT !.granted = IF ok /\ h0.createdAt = t THEN @ + 1 ELSE @,
                   !.deniedAt = IF ok THEN NoTime ELSE t,
                   !.recovered = ok /\ h0.deniedAt # NoTime,
                   !.winK = IF ok /\ h0.winStart # NoTime THEN @ + 1 ELSE @]

(* --------------------------- load balancer ----------------------------- *)
\* Backend.Address: the two addresses of the tests, shared when there are more
\* Backends than addresses
Address(b) == IF b % 2 = 1 THEN "127.0.0.1:5001" ELSE "127.0.0.1:5002"

Addresses == {Address(b) : b \in BackendIds}

\* the allowedBackends a caller may pass
AllowedSets == SUBSET Addresses

Registered == {backends[i] : i \in 1..Len(backends)}

\* the increment forgotten
incrementConnections_none(conns, b) == conns

\* b.connections.Add(1)
incrementConnections(conns, b) == [conns EXCEPT ![b] = @ + 1]

\* b.connections.Add(-1)
decrementConnections(conns, b) == [conns EXCEPT ![b] = @ - 1]

\* the filter left out: every Backend passes
allowedFor_any(allowed, b) == TRUE

\* _, exists := allowedBackends[backend.Address]
allowedFor(allowed, b) == Address(b) \in allowed

\* <= in place of <: the last Backend with the least count wins
fewer_orEqual(selected, count, least) == selected = NoBackend \/ count <= least

\* selectedBackend == nil || backend.ConnectionCount() < leastConnectionCount
fewer(selected, count, least) == selected = NoBackend \/ count < least

\* the check left out
emptyRegistry_unchecked(bs) == FALSE

\* len(lb.backends) == 0
emptyRegistry(bs) == Len(bs) = 0

\* the limiter's answer ignored
rateLimited_ignored(ok) == FALSE

\* !lb.rateLimiter.allowConnection(clientID)
rateLimited(ok) == ~ok

\* what a call returns
ErrNoRegisteredBackends == "no registered backends"
ErrNoAvailableBackend == "no available backend"
ErrRateLimitReached == "connection rejected due to rate limiting"
ErrDial == "dial error"
ErrTransfer == "transfer error"
Nil == "nil"

\* a mutex taken by every caller at once
free_always(mu) == TRUE

\* Lock() returns when no task holds the mutex
free(mu) == mu = NoTask

\* a return that leaves the mutex with its holder
Unlock_skipped(mu) == mu

\* Unlock(): no task holds the mutex
Unlock(mu) == NoTask

\* a net.Conn is "nil" (no connection), "open" or "closed"; Close left out
Close_skipped(conn) == conn

\* conn.Close()
Close(conn) == IF conn = "nil" THEN conn ELSE "closed"

\* a task outside any call
Idle ==
    [pc |-> "idle", clientID |-> 0, allowedBackends |-> {},
     backend |-> NoBackend, backends |-> << >>, selectedBackend |-> NoBackend,
     address |-> "", backendConn |-> "nil",
     leastConnectionCount |-> 0, idx |-> 0, err |-> Nil,
     fromBackend |-> "none", toBackend |-> "none",
     errFromBackend |-> Nil, errToBackend |-> Nil,
     errChan |-> << >>, err1 |-> Nil]

\* a task whose RouteConnection returns err
Returning(err) == [Idle EXCEPT !.pc = "return", !.err = err]

(* ------------------------- the server's state -------------------------- *)
\* no peer certificate
NoCertificate == [cn |-> "", serial |-> 0]

\* a task that handles no connection
NoConnection ==
    [pc |-> "idle", clientConn |-> "nil", handshake |-> FALSE,
     clientCert |-> NoCertificate,
     clientID |-> 0, allowedBackends |-> {}, err |-> "nil"]

\* acceptConnections not started; sleep is what is left of time.Sleep, in
\* ticks, and failures counts the errors Accept returned since it last
\* returned a connection
NotAccepting ==
    [pc |-> "none", retryCount |-> 0, sleep |-> 0, err |-> "nil", failures |-> 0]

\* Stop not called; timer is what is left of time.After, and elapsed the
\* time since the call, in ticks
NotStopping == [pc |-> "none", timer |-> 0, elapsed |-> 0, err |-> "nil"]

\* main at its first statement: the command line is not parsed yet, nothing
\* is printed, no error is met; exitCode is read once the process has exited
NoMain ==
    [pc |-> "flag", configFileFlag |-> "", usage |-> FALSE, err |-> "nil",
     exitCode |-> 0]

\* the -config flag's value where it is given
ConfigFile == "config.yaml"

\* NewServer has returned; Start has not been called
NewServer ==
    /\ main = [NoMain EXCEPT !.pc = "Start", !.configFileFlag = ConfigFile]
    /\ handler = [t \in Tasks |-> NoConnection]
    /\ shutdown = FALSE
    /\ listener = "nil"
    /\ wg = 0
    /\ acceptLoop = NotAccepting
    /\ stopCall = NotStopping
    /\ done = FALSE
    /\ exited = FALSE

(* ----------------- the load balancer, called by tasks ------------------ *)
\* NewLoadBalancer(1, 0): every client has one token and the routing is
\* followed at one instant, so that a second call of a client is denied
Init ==
    /\ now = 0
    /\ bucketCapacity = 1
    /\ bucketRefillRate = 0
    /\ clientBuckets = [c \in {} |-> 0]
    /\ rlMu = NoTask
    /\ backends = << >>
    /\ connections = [b \in BackendIds |-> 0]
    /\ lbMu = NoTask
    /\ frame = [t \in Tasks |-> Idle]
    /\ lastCall = [op |-> "none", arg |-> 0, ret |-> FALSE]
    /\ hist = [c \in Clients |-> NoHist]
    /\ NewServer

\* the clock advances
Tick ==
    /\ now < MaxNow
    /\ now' = now + 1
    /\ UNCHANGED <<bucketCapacity, bucketRefillRate, clientBuckets, rlMu, lbVars>>

\* lb.AddBackend(b) is called: lb.mu.Lock(), and append reads lb.backends;
\* the Backends are numbered in the order of their registration
AddBackendLock(t, b) ==
    /\ frame[t].pc = "idle"
    /\ b = Len(backends) + 1
    /\ free(lbMu)
    /\ lbMu' = t
    /\ frame' = [frame EXCEPT ![t] =
                    [Idle EXCEPT !.pc = "append", !.backend = b,
                                 !.backends = backends]]
    /\ UNCHANGED <<rlVars, backends, connections, histVars>>

\* lb.backends = append(...) stores the slice read with backend added;
\* lb.mu.Unlock()
AddBackendAppend(t) ==
    /\ frame[t].pc = "append"
    /\ backends' = Append(frame[t].backends, frame[t].backend)
    /\ lbMu' = Unlock(lbMu)
    /\ frame' = [frame EXCEPT ![t] = Idle]
    /\ UNCHANGED <<rlVars, connections, histVars>>

\* lb.RouteConnection(c, clientConn, allowed) is called;
\* rl.allowConnection(c): rl.mu.Lock()
RouteConnection(t, c, allowed) ==
    /\ frame[t].pc = "idle"
    /\ free(rlMu)
    /\ rlMu' = t
    /\ frame' = [frame EXCEPT ![t] =
                    [Idle EXCEPT !.pc = "allowConnection",
                                          !.clientID = c,
                                          !.allowedBackends = allowed]]
    /\ UNCHANGED <<now, bucketCapacity, bucketRefillRate, clientBuckets,
                   backends, connections, lbMu, histVars>>

\* the body of rl.allowConnection, rl.mu.Unlock(); a client over its rate
\* has RouteConnection return ErrRateLimitReached
AllowConnectionReturn(t) ==
    /\ frame[t].pc = "allowConnection"
    /\ LET r == allowConnection(clientBuckets, frame[t].clientID,
                                bucketCapacity, bucketRefillRate, now)
       IN  /\ clientBuckets' = r.buckets
           /\ IF rateLimited(r.ok)
              THEN frame' = [frame EXCEPT ![t] = Returning(ErrRateLimitReached)]
              ELSE frame' = [frame EXCEPT ![t] =
                                [@ EXCEPT !.pc = "GetBackend", !.clientID = 0]]
    /\ rlMu' = Unlock(rlMu)
    /\ UNCHANGED <<now, bucketCapacity, bucketRefillRate,
                   backends, connections, lbMu, histVars>>

\* lb.GetBackend(allowed): lb.mu.Lock(); with no Backend registered,
\* lb.mu.Unlock() and RouteConnection returns ErrNoRegisteredBackends
GetBackendLock(t) ==
    /\ frame[t].pc = "GetBackend"
    /\ free(lbMu)
    /\ IF emptyRegistry(backends)
       THEN /\ frame' = [frame EXCEPT ![t] = Returning(ErrNoRegisteredBackends)]
            /\ UNCHANGED lbMu
       ELSE /\ frame' = [frame EXCEPT ![t] = [@ EXCEPT !.pc = "range", !.idx = 1]]
            /\ lbMu' = t
    /\ UNCHANGED <<rlVars, backends, connections, histVars>>

\* one pass of for _, backend := range lb.backends
GetBackendRange(t) ==
    /\ frame[t].pc = "range"
    /\ frame[t].idx <= Len(backends)
    /\ LET backend == backends[frame[t].idx]
       IN  frame' = [frame EXCEPT ![t] =
                IF /\ allowedFor(frame[t].allowedBackends, backend)
                   /\ fewer(frame[t].selectedBackend, connections[backend],
                            frame[t].leastConnectionCount)
                THEN [@ EXCEPT !.selectedBackend = backend,
                               !.leastConnectionCount = connections[backend],
                               !.idx = @ + 1]
                ELSE [@ EXCEPT !.idx = @ + 1]]
    /\ UNCHANGED <<rlVars, backends, connections, lbMu, histVars>>

\* after the loop: ErrNoAvailableBackend, or incrementConnections on the
\* selected Backend; lb.mu.Unlock() and GetBackend returns
GetBackendReturn(t) ==
    /\ frame[t].pc = "range"
    /\ frame[t].idx > Len(backends)
    /\ IF frame[t].selectedBackend = NoBackend
       THEN /\ frame' = [frame EXCEPT ![t] = Returning(ErrNoAvailableBackend)]
            /\ UNCHANGED connections
       ELSE /\ connections' = incrementConnections(connections, frame[t].selectedBackend)
            /\ frame' = [frame EXCEPT ![t] =
                            [@ EXCEPT !.pc = "Dial", !.idx = 0,
                                      !.leastConnectionCount = 0]]
    /\ lbMu' = Unlock(lbMu)
    /\ UNCHANGED <<rlVars, backends, histVars>>

\* the decrement written after the dial in place of deferred: a failed dial
\* returns without it
DialError_leak(t) ==
    /\ frame[t].pc = "Dial"
    /\ frame' = [frame EXCEPT ![t] = Returning(ErrDial)]
    /\ UNCHANGED <<rlVars, backends, connections, lbMu, histVars>>

\* lb.dialer.Dial fails: RouteConnection returns the error, which runs the
\* deferred decrement
DialError(t) ==
    /\ frame[t].pc = "Dial"
    /\ frame' = [frame EXCEPT ![t] =
            [@ EXCEPT !.pc = "deferred", !.err = ErrDial,
                      !.address = Address(frame[t].selectedBackend)]]
    /\ UNCHANGED <<rlVars, backends, connections, lbMu, histVars>>

\* lb.dialer.Dial returns a connection
Dial(t) ==
    /\ frame[t].pc = "Dial"
    /\ frame' = [frame EXCEPT ![t] =
            [@ EXCEPT !.pc = "transferData", !.backendConn = "open",
                      !.address = Address(frame[t].selectedBackend)]]
    /\ UNCHANGED <<rlVars, backends, connections, lbMu, histVars>>

\* transferData returns err; RouteConnection returns it, which runs
\* backendConn.Close() and the deferred decrement
TransferData(t, err) ==
    /\ frame[t].pc = "transferData"
    /\ frame' = [frame EXCEPT ![t] =
            [@ EXCEPT !.pc = "deferred", !.err = err,
                      !.backendConn = Close(@)]]
    /\ UNCHANGED <<rlVars, backends, connections, lbMu, histVars>>

\* the deferred function: lb.mu.Lock()
DeferredLock(t) ==
    /\ frame[t].pc = "deferred"
    /\ free(lbMu)
    /\ lbMu' = t
    /\ frame' = [frame EXCEPT ![t] = [@ EXCEPT !.pc = "decrement"]]
    /\ UNCHANGED <<rlVars, backends, connections, histVars>>

\* selectedBackend.decrementConnections(); lb.mu.Unlock(); RouteConnection
\* returns
DeferredDecrement(t) ==
    /\ frame[t].pc = "decrement"
    /\ connections' = decrementConnections(connections, frame[t].selectedBackend)
    /\ lbMu' = Unlock(lbMu)
    /\ frame' = [frame EXCEPT ![t] = Returning(frame[t].err)]
    /\ UNCHANGED <<rlVars, backends, histVars>>

\* the caller has the value RouteConnection returned; the task is free again
Return(t) ==
    /\ frame[t].pc = "return"
    /\ frame' = [frame EXCEPT ![t] = Idle]
    /\ UNCHANGED <<rlVars, backends, connections, lbMu, histVars>>

Next ==
    \/ \E t \in Tasks, b \in BackendIds :
            AddBackendLock(t, b) /\ UNCHANGED srvVars
    \/ \E t \in Tasks : AddBackendAppend(t) /\ UNCHANGED srvVars
    \/ \E t \in Tasks, c \in Clients, allowed \in AllowedSets :
            RouteConnection(t, c, allowed) /\ UNCHANGED srvVars
    \/ \E t \in Tasks : AllowConnectionReturn(t) /\ UNCHANGED srvVars
    \/ \E t \in Tasks : GetBackendLock(t) /\ UNCHANGED srvVars
    \/ \E t \in Tasks : GetBackendRange(t) /\ UNCHANGED srvVars
    \/ \E t \in Tasks : GetBackendReturn(t) /\ UNCHANGED srvVars
    \/ \E t \in Tasks : DialError(t) /\ UNCHANGED srvVars
    \/ \E t \in Tasks : Dial(t) /\ UNCHANGED srvVars
    \/ \E t \in Tasks, err \in {Nil, ErrTransfer} :
            TransferData(t, err) /\ UNCHANGED srvVars
    \/ \E t \in Tasks : DeferredLock(t) /\ UNCHANGED srvVars
    \/ \E t \in Tasks : DeferredDecrement(t) /\ UNCHANGED srvVars
    \/ \E t \in Tasks : Return(t) /\ UNCHANGED srvVars

Spec == Init /\ [][Next]_vars

(* ---------------- the server: handling one connection ------------------ *)
\* ServerConfig.AllowedClients, a map CN -> bool
AllowedClients == [cn \in {"alice", "bob", "carol"} |-> cn # "carol"]

\* the peer certificates a client may present
Certificates ==
    {[cn |-> "", serial |-> 1],
     [cn |-> "alice", serial |-> 1], [cn |-> "alice", serial |-> 2],
     [cn |-> "bob", serial |-> 1],
     [cn |-> "carol", serial |-> 1],
     [cn |-> "mallory", serial |-> 1]}

\* GenerateClientID: the SHA-256 digest of "cn:serial", taken as free of
\* collisions and written as a number
GenerateClientID(cn, serialNumber) ==
    LET n == CASE cn = "alice" -> 1
               [] cn = "bob" -> 2
               [] cn = "carol" -> 3
               [] cn = "mallory" -> 4
               [] OTHER -> 0
    IN  10 * n + serialNumber

\* ServerConfig.ClientBackendACL, a map clientID -> set of addresses
ClientBackendACL ==
    [id \in {GenerateClientID("alice", 1), GenerateClientID("bob", 1),
             GenerateClientID("carol", 1)} |->
        IF id = GenerateClientID("alice", 1) THEN {"127.0.0.1:5001", "127.0.0.1:5003"}
        ELSE IF id = GenerateClientID("bob", 1) THEN {"127.0.0.1:5001", "127.0.0.1:5002"}
        ELSE {"127.0.0.1:5003"}]

\* what handleConnection and AuthenticateClient return
ErrHandshake == "tls: handshake failure"
ErrNoCertificate == "client did not provide a TLS certificate"
ErrNoCommonName == "client's TLS certificate lacks a CommonName"
ErrNotAllowed == "client is not allowed"
ErrNotListed == "client is not listed in the provided access control list"

\* main has registered every Backend of the configuration, in order, and
\* the server serves
InitServer ==
    /\ now = 0
    /\ bucketCapacity = 1
    /\ bucketRefillRate = 0
    /\ clientBuckets = [c \in {} |-> 0]
    /\ rlMu = NoTask
    /\ backends = [i \in 1..NumBackends |-> i]
    /\ connections = [b \in BackendIds |-> 0]
    /\ lbMu = NoTask
    /\ frame = [t \in Tasks |-> Idle]
    /\ lastCall = [op |-> "none", arg |-> 0, ret |-> FALSE]
    /\ hist = [c \in Clients |-> NoHist]
    /\ handler = [t \in Tasks |-> NoConnection]
    /\ shutdown = FALSE
    /\ listener = "open"
    /\ wg = 0
    /\ acceptLoop = NotAccepting
    /\ stopCall = NotStopping
    /\ done = FALSE
    /\ exited = FALSE
    /\ main = [NoMain EXCEPT !.pc = "signal", !.configFileFlag = ConfigFile]

\* the variables a step of handleConnection before RouteConnection leaves alone
serving == <<shutdown, listener, wg, acceptLoop, stopCall, done, exited, main>>

\* the goroutine started for the connection Accept returned
Accepted == [NoConnection EXCEPT !.pc = "Handshake", !.clientConn = "open"]

\* handleConnection returns err, and the deferred clientConn.Close() has run
Rejected(err) ==
    [NoConnection EXCEPT !.pc = "return", !.err = err,
                         !.clientConn = Close(Accepted.clientConn)]

\* go s.handleConnection(conn): AuthenticateClient is called
HandleConnection(t) ==
    /\ handler[t].pc = "idle"
    /\ handler' = [handler EXCEPT ![t] = Accepted]
    /\ UNCHANGED <<rlVars, lbVars, histVars, serving>>

\* tlsConn.Handshake() returns
Handshake(t, ok) ==
    /\ handler[t].pc = "Handshake"
    /\ handler' = [handler EXCEPT ![t] =
            IF ok THEN [@ EXCEPT !.pc = "GetClientCertificate", !.handshake = TRUE]
            ELSE Rejected(ErrHandshake)]
    /\ UNCHANGED <<rlVars, lbVars, histVars, serving>>

\* GetClientCertificate: the first peer certificate, if there is one
GetClientCertificate(t, clientCert) ==
    /\ handler[t].pc = "GetClientCertificate"
    /\ handler' = [handler EXCEPT ![t] =
            IF clientCert = NoCertificate THEN Rejected(ErrNoCertificate)
            ELSE [@ EXCEPT !.pc = "ValidateCommonName", !.clientCert = clientCert]]
    /\ UNCHANGED <<rlVars, lbVars, histVars, serving>>

\* the allow-list not consulted
isAllowed_any(allowedClients, cn) == TRUE

\* _, isAllowed := allowedClients[clientCertCN]
isAllowed(allowedClients, cn) == cn \in DOMAIN allowedClients

\* ValidateCommonName, and the return of AuthenticateClient
ValidateCommonName(t) ==
    /\ handler[t].pc = "ValidateCommonName"
    /\ handler' = [handler EXCEPT ![t] =
            IF handler[t].clientCert.cn = "" THEN Rejected(ErrNoCommonName)
            ELSE IF ~isAllowed(AllowedClients, handler[t].clientCert.cn)
                 THEN Rejected(ErrNotAllowed)
                 ELSE [@ EXCEPT !.pc = "AuthorizeClient"]]
    /\ UNCHANGED <<rlVars, lbVars, histVars, serving>>

\* allowedBackends, ok := clientBackendACL[clientID]
listed(clientBackendACL, clientID) == clientID \in DOMAIN clientBackendACL

\* GenerateClientID and AuthorizeClient
AuthorizeClient(t) ==
    /\ handler[t].pc = "AuthorizeClient"
    /\ LET clientID == GenerateClientID(handler[t].clientCert.cn,
                                        handler[t].clientCert.serial)
       IN  handler' = [handler EXCEPT ![t] =
                IF ~listed(ClientBackendACL, clientID) THEN Rejected(ErrNotListed)
                ELSE [@ EXCEPT !.pc = "RouteConnection",
                               !.clientID = clientID,
                               !.allowedBackends = ClientBackendACL[clientID]]]
    /\ UNCHANGED <<rlVars, lbVars, histVars, serving>>

\* s.config.LoadBalancer.RouteConnection(clientID, clientConn, allowedBackends)
HandlerRoute(t) ==
    /\ handler[t].pc = "RouteConnection"
    /\ RouteConnection(t, handler[t].clientID, handler[t].allowedBackends)
    /\ handler' = [handler EXCEPT ![t] = [@ EXCEPT !.pc = "routing"]]
    /\ UNCHANGED serving

\* a step inside RouteConnection
Routing(t) ==
    \/ handler[t].pc = "routing" /\ AllowConnectionReturn(t) /\ UNCHANGED srvVars
    \/ handler[t].pc = "routing" /\ GetBackendLock(t) /\ UNCHANGED srvVars
    \/ handler[t].pc = "routing" /\ GetBackendRange(t) /\ UNCHANGED srvVars
    \/ handler[t].pc = "routing" /\ GetBackendReturn(t) /\ UNCHANGED srvVars
    \/ handler[t].pc = "routing" /\ DialError(t) /\ UNCHANGED srvVars
    \/ handler[t].pc = "routing" /\ Dial(t) /\ UNCHANGED srvVars
    \/ \E err \in {Nil, ErrTransfer} :
            handler[t].pc = "routing" /\ TransferData(t, err) /\ UNCHANGED srvVars
    \/ handler[t].pc = "routing" /\ DeferredLock(t) /\ UNCHANGED srvVars
    \/ handler[t].pc = "routing" /\ DeferredDecrement(t) /\ UNCHANGED srvVars

\* RouteConnection returns, and handleConnection with it
HandlerRouted(t) ==
    /\ handler[t].pc = "routing"
    /\ handler' = [handler EXCEPT ![t] = Rejected(frame[t].err)]
    /\ Return(t)
    /\ UNCHANGED serving

\* the goroutine logs the error, if any, and ends
HandlerEnds(t) ==
    /\ handler[t].pc = "return"
    /\ handler' = [handler EXCEPT ![t] = NoConnection]
    /\ UNCHANGED <<rlVars, lbVars, histVars, serving>>

NextServer ==
    \/ \E t \in Tasks : HandleConnection(t)
    \/ \E t \in Tasks, ok \in BOOLEAN : Handshake(t, ok)
    \/ \E t \in Tasks, clientCert \in Certificates \cup {NoCertificate} :
            GetClientCertificate(t, clientCert)
    \/ \E t \in Tasks : ValidateCommonName(t)
    \/ \E t \in Tasks : AuthorizeClient(t)
    \/ \E t \in Tasks : HandlerRoute(t)
    \/ \E t \in Tasks : Routing(t)
    \/ \E t \in Tasks : HandlerRouted(t)
    \/ \E t \in Tasks : HandlerEnds(t)

SpecServer == InitServer /\ [][NextServer]_vars

(* ------------------------------ the relay ------------------------------ *)
\* what io.Copy returns: nil once its source is at EOF, or the error of the
\* read or of the write that failed
ErrReset == "read: connection reset by peer"
ErrPipe == "write: broken pipe"
CopyResults == {Nil, ErrReset, ErrPipe}

\* the two goroutines of transferData, and the context each puts on its error
Directions == {"fromBackend", "toBackend"}
Context(dir) ==
    IF dir = "fromBackend" THEN "copying data from backend server"
    ELSE "copying data to backend server"

\* fmt.Errorf(context + ": %w", err)
Errorf(context, err) == context \o ": " \o err

\* the second error dropped
Join_first(err1, err2) == err1

\* errors.Join(err1, err2): nil values are discarded, nil where nothing is
\* left, else the errors in order, a newline between them
Join(err1, err2) ==
    IF err1 = Nil THEN err2
    ELSE IF err2 = Nil THEN err1
    ELSE err1 \o "\n" \o err2

\* cap(errChan)
ErrChanCap == 2

\* transferData is called: errChan := make(chan error, 2), and the two
\* goroutines are started
TransferDataGo(t) ==
    /\ frame[t].pc = "transferData"
    /\ frame' = [frame EXCEPT ![t] =
            [@ EXCEPT !.pc = "err1", !.fromBackend = "copying",
                      !.toBackend = "copying"]]
    /\ UNCHANGED <<rlVars, backends, connections, lbMu, histVars>>

\* io.Copy of direction dir returns err, and its goroutine sends the error
\* with its context, or nil, on errChan
CopyReturns(t, dir, err) ==
    /\ frame[t][dir] = "copying"
    /\ Len(frame[t].errChan) < ErrChanCap
    /\ LET sent == IF err # Nil THEN Errorf(Context(dir), err) ELSE Nil
       IN  frame' = [frame EXCEPT ![t] =
                IF dir = "fromBackend"
                THEN [@ EXCEPT !.fromBackend = "done", !.errFromBackend = sent,
                               !.errChan = Append(@, sent)]
                ELSE [@ EXCEPT !.toBackend = "done", !.errToBackend = sent,
                               !.errChan = Append(@, sent)]]
    /\ UNCHANGED <<rlVars, backends, connections, lbMu, histVars>>

\* transferData returning what it received first
TransferDataErr1_returns(t) ==
    /\ frame[t].pc = "err1"
    /\ Len(frame[t].errChan) > 0
    /\ frame' = [frame EXCEPT ![t] =
            [@ EXCEPT !.pc = "deferred", !.err = Head(frame[t].errChan),
                      !.errChan = Tail(@), !.backendConn = Close(@)]]
    /\ UNCHANGED <<rlVars, backends, connections, lbMu, histVars>>

\* err1 := <-errChan
TransferDataErr1(t) ==
    /\ frame[t].pc = "err1"
    /\ Len(frame[t].errChan) > 0
    /\ frame' = [frame EXCEPT ![t] =
            [@ EXCEPT !.pc = "err2", !.err1 = Head(frame[t].errChan),
                      !.errChan = Tail(@)]]
    /\ UNCHANGED <<rlVars, backends, connections, lbMu, histVars>>

\* err2 := <-errChan; transferData returns errors.Join(err1, err2), and
\* RouteConnection returns it, which runs backendConn.Close() and the
\* deferred decrement
TransferDataErr2(t) ==
    /\ frame[t].pc = "err2"
    /\ Len(frame[t].errChan) > 0
    /\ frame' = [frame EXCEPT ![t] =
            [@ EXCEPT !.pc = "deferred",
                      !.err = Join(frame[t].err1, Head(frame[t].errChan)),
                      !.err1 = Nil, !.errChan = Tail(@),
                      !.backendConn = Close(@)]]
    /\ UNCHANGED <<rlVars, backends, connections, lbMu, histVars>>

\* a step inside RouteConnection, the relay followed goroutine by goroutine
RoutingRelay(t) ==
    \/ handler[t].pc = "routing" /\ AllowConnectionReturn(t) /\ UNCHANGED srvVars
    \/ handler[t].pc = "routing" /\ GetBackendLock(t) /\ UNCHANGED srvVars
    \/ handler[t].pc = "routing" /\ GetBackendRange(t) /\ UNCHANGED srvVars
    \/ handler[t].pc = "routing" /\ GetBackendReturn(t) /\ UNCHANGED srvVars
    \/ handler[t].pc = "routing" /\ DialError(t) /\ UNCHANGED srvVars
    \/ handler[t].pc = "routing" /\ Dial(t) /\ UNCHANGED srvVars
    \/ handler[t].pc = "routing" /\ TransferDataGo(t) /\ UNCHANGED srvVars
    \/ \E dir \in Directions, err \in CopyResults :
            handler[t].pc = "routing" /\ CopyReturns(t, dir, err) /\ UNCHANGED srvVars
    \/ handler[t].pc = "routing" /\ TransferDataErr1(t) /\ UNCHANGED srvVars
    \/ handler[t].pc = "routing" /\ TransferDataErr2(t) /\ UNCHANGED srvVars
    \/ handler[t].pc = "routing" /\ DeferredLock(t) /\ UNCHANGED srvVars
    \/ handler[t].pc = "routing" /\ DeferredDecrement(t) /\ UNCHANGED srvVars

\* the task whose connections are followed through the relay
Relayed == CHOOSE t \in Tasks : \A u \in Tasks : t <= u

\* one connection after the other, each handled by the task Relayed
NextRelay ==
    \/ HandleConnection(Relayed)
    \/ \E ok \in BOOLEAN : Handshake(Relayed, ok)
    \/ \E clientCert \in Certificates \cup {NoCertificate} :
            GetClientCertificate(Relayed, clientCert)
    \/ ValidateCommonName(Relayed)
    \/ AuthorizeClient(Relayed)
    \/ HandlerRoute(Relayed)
    \/ RoutingRelay(Relayed)
    \/ HandlerRouted(Relayed)
    \/ HandlerEnds(Relayed)

SpecRelay == InitServer /\ [][NextRelay]_vars

(* ------------- the server: accept loop and graceful shutdown ----------- *)
ErrShutdownTimeout == "server shutdown timed out waiting for connections to close"

\* what Accept returns on a closed listener, and on a fault
ErrClosed == "use of closed network connection"
ErrAccept == "accept error"

\* retryLimit := 5
retryLimit == 5

\* retryDelay := time.Second, and Stop's time.After(time.Second)
retryDelay == TicksPerSecond

InitShutdown ==
    /\ now = 0
    /\ bucketCapacity = 1
    /\ bucketRefillRate = 0
    /\ clientBuckets = [c \in {} |-> 0]
    /\ rlMu = NoTask
    /\ backends = [i \in 1..NumBackends |-> i]
    /\ connections = [b \in BackendIds |-> 0]
    /\ lbMu = NoTask
    /\ frame = [t \in Tasks |-> Idle]
    /\ lastCall = [op |-> "none", arg |-> 0, ret |-> FALSE]
    /\ hist = [c \in Clients |-> NoHist]
    /\ NewServer

\* what Start, Stop and the accept loop leave alone
routingVars == <<rlVars, lbVars, histVars>>

\* the accept loop started without s.wg.Add(1)
Start_unregistered ==
    /\ listener = "nil"
    /\ ~exited
    /\ listener' = "open"
    /\ acceptLoop' = [NotAccepting EXCEPT !.pc = "for"]
    /\ UNCHANGED <<routingVars, handler, shutdown, wg, stopCall, done, exited>>

\* Server.Start: tls.Listen succeeds; s.wg.Add(1); go s.acceptConnections()
Start ==
    /\ listener = "nil"
    /\ ~exited
    /\ listener' = "open"
    /\ wg' = wg + 1
    /\ acceptLoop' = [NotAccepting EXCEPT !.pc = "for"]
    /\ UNCHANGED <<routingVars, handler, shutdown, stopCall, done, exited>>

\* for !s.shutdown.Load(): the loop goes on to Accept, or ends and the
\* deferred s.wg.Done() runs
AcceptLoopFor ==
    /\ acceptLoop.pc = "for"
    /\ ~exited
    /\ IF shutdown
       THEN /\ acceptLoop' = [acceptLoop EXCEPT !.pc = "done"]
            /\ wg' = wg - 1
       ELSE /\ acceptLoop' = [acceptLoop EXCEPT !.pc = "Accept"]
            /\ UNCHANGED wg
    /\ UNCHANGED <<routingVars, handler, shutdown, listener, stopCall, done, exited>>

\* s.listener.Accept() returns a connection: the retry counter is reset,
\* s.wg.Add(1), and a goroutine is started to handle it
Accept(t) ==
    /\ acceptLoop.pc = "Accept"
    /\ ~exited
    /\ listener = "open"
    /\ handler[t].pc = "idle"
    /\ acceptLoop' = [acceptLoop EXCEPT !.pc = "for", !.retryCount = 0,
                                        !.failures = 0]
    /\ wg' = wg + 1
    /\ handler' = [handler EXCEPT ![t] = Accepted]
    /\ UNCHANGED <<routingVars, shutdown, listener, stopCall, done, exited>>

\* s.listener.Accept() returns an error: the listener is closed, or a fault
AcceptError ==
    /\ acceptLoop.pc = "Accept"
    /\ ~exited
    /\ listener \in {"open", "closed"}
    /\ acceptLoop' = [acceptLoop EXCEPT
            !.pc = "err",
            !.failures = @ + 1,
            !.err = IF listener = "closed" THEN ErrClosed ELSE ErrAccept]
    /\ UNCHANGED <<routingVars, handler, shutdown, listener, wg, stopCall, done, exited>>

\* the retry granted once more
mayRetry_orEqual(retryCount) == retryCount <= retryLimit

\* retryCount < retryLimit
mayRetry(retryCount) == retryCount < retryLimit

\* if err != nil: the retry path, or log.Fatalf
AcceptRetry ==
    /\ acceptLoop.pc = "err"
    /\ ~exited
    /\ IF mayRetry(acceptLoop.retryCount)
       THEN /\ acceptLoop' = [acceptLoop EXCEPT !.pc = "Sleep",
                                                !.retryCount = @ + 1,
                                                !.sleep = retryDelay]
            /\ UNCHANGED exited
       ELSE /\ exited' = TRUE
            /\ UNCHANGED acceptLoop
    /\ UNCHANGED <<routingVars, handler, shutdown, listener, wg, stopCall, done>>

\* time.Sleep(retryDelay) returns; continue
AcceptWake ==
    /\ acceptLoop.pc = "Sleep"
    /\ ~exited
    /\ acceptLoop.sleep = 0
    /\ acceptLoop' = [acceptLoop EXCEPT !.pc = "for"]
    /\ UNCHANGED <<routingVars, handler, shutdown, listener, wg, stopCall, done, exited>>

\* handleConnection returns, whatever it did; the deferred s.wg.Done()
HandlerDone(t) ==
    /\ handler[t].pc # "idle"
    /\ ~exited
    /\ handler' = [handler EXCEPT ![t] = NoConnection]
    /\ wg' = wg - 1
    /\ UNCHANGED <<routingVars, shutdown, listener, acceptLoop, stopCall, done, exited>>

\* Server.Stop is called: s.mu.Lock(); s.shutdown.Store(true)
Stop ==
    /\ stopCall.pc = "none"
    /\ ~exited
    /\ listener = "open"
    /\ shutdown' = TRUE
    /\ stopCall' = [NotStopping EXCEPT !.pc = "Close"]
    /\ UNCHANGED <<routingVars, handler, listener, wg, acceptLoop, done, exited>>

\* s.listener.Close(); the goroutine of s.wg.Wait() is started, and the
\* select with its time.After(time.Second)
StopClose ==
    /\ stopCall.pc = "Close"
    /\ ~exited
    /\ listener' = "closed"
    /\ stopCall' = [stopCall EXCEPT !.pc = "select", !.timer = retryDelay]
    /\ UNCHANGED <<routingVars, handler, shutdown, wg, acceptLoop, done, exited>>

\* s.wg.Wait() returns; close(done)
WaitReturns ==
    /\ stopCall.pc = "select"
    /\ ~exited
    /\ ~done
    /\ wg = 0
    /\ done' = TRUE
    /\ UNCHANGED <<routingVars, handler, shutdown, listener, wg, acceptLoop, stopCall, exited>>

\* case <-done: return nil
StopDone ==
    /\ stopCall.pc = "select"
    /\ ~exited
    /\ done
    /\ stopCall' = [stopCall EXCEPT !.pc = "returned", !.err = Nil]
    /\ UNCHANGED <<routingVars, handler, shutdown, listener, wg, acceptLoop, done, exited>>

\* case <-time.After(time.Second): return the error
StopTimeout ==
    /\ stopCall.pc = "select"
    /\ ~exited
    /\ stopCall.timer = 0
    /\ stopCall' = [stopCall EXCEPT !.pc = "returned", !.err = ErrShutdownTimeout]
    /\ UNCHANGED <<routingVars, handler, shutdown, listener, wg, acceptLoop, done, exited>>

\* a goroutine can take a step without waiting for a connection, a peer or
\* the clock
Runnable ==
    \/ acceptLoop.pc \in {"for", "err"}
    \/ acceptLoop.pc = "Accept" /\ listener = "closed"
    \/ acceptLoop.pc = "Sleep" /\ acceptLoop.sleep = 0
    \/ stopCall.pc = "Close"
    \/ stopCall.pc = "select" /\ (done \/ wg = 0 \/ stopCall.timer = 0)

\* the clock advances by one tick, once no goroutine is runnable
TickShutdown ==
    /\ ~exited
    /\ ~Runnable
    /\ acceptLoop.pc = "Sleep" \/ stopCall.pc = "select"
    /\ acceptLoop' = IF acceptLoop.pc = "Sleep"
                     THEN [acceptLoop EXCEPT !.sleep = @ - 1]
                     ELSE acceptLoop
    /\ stopCall' = IF stopCall.pc = "select"
                   THEN [stopCall EXCEPT !.timer = @ - 1, !.elapsed = @ + 1]
                   ELSE stopCall
    /\ UNCHANGED <<routingVars, handler, shutdown, listener, wg, done, exited>>

NextShutdown ==
    \/ Start /\ UNCHANGED main
    \/ AcceptLoopFor /\ UNCHANGED main
    \/ \E t \in Tasks : Accept(t) /\ UNCHANGED main
    \/ AcceptError /\ UNCHANGED main
    \/ AcceptRetry /\ UNCHANGED main
    \/ AcceptWake /\ UNCHANGED main
    \/ \E t \in Tasks : HandlerDone(t) /\ UNCHANGED main
    \/ Stop /\ UNCHANGED main
    \/ StopClose /\ UNCHANGED main
    \/ WaitReturns /\ UNCHANGED main
    \/ StopDone /\ UNCHANGED main
    \/ StopTimeout /\ UNCHANGED main
    \/ TickShutdown /\ UNCHANGED main

SpecShutdown == InitShutdown /\ [][NextShutdown]_vars

(* ---------------------------- the program ------------------------------ *)
\* what main passes to log.Fatal
ErrConfig == "loading the configuration failed"
ErrTLSConfig == "making the TLS configuration failed"
ErrNewServer == "creating the server failed"
ErrListen == "unable to initialize server TLS listener"

\* the values of the -config flag
ConfigFileFlags == {"", ConfigFile}

\* the process is started, with or without -config
InitMain ==
    /\ now = 0
    /\ bucketCapacity = 1
    /\ bucketRefillRate = 0
    /\ clientBuckets = [c \in {} |-> 0]
    /\ rlMu = NoTask
    /\ backends = << >>
    /\ connections = [b \in BackendIds |-> 0]
    /\ lbMu = NoTask
    /\ frame = [t \in Tasks |-> Idle]
    /\ lastCall = [op |-> "none", arg |-> 0, ret |-> FALSE]
    /\ hist = [c \in Clients |-> NoHist]
    /\ handler = [t \in Tasks |-> NoConnection]
    /\ shutdown = FALSE
    /\ listener = "nil"
    /\ wg = 0
    /\ acceptLoop = NotAccepting
    /\ stopCall = NotStopping
    /\ done = FALSE
    /\ exited = FALSE
    /\ main \in {[NoMain EXCEPT !.configFileFlag = f] : f \in ConfigFileFlags}

\* log.Fatal(err): the error is printed and the process ends with os.Exit(1)
Fatal(m, err) == [m EXCEPT !.pc = "exited", !.err = err, !.exitCode = 1]

\* main returns: the process ends with exit code 0
Returned(m) == [m EXCEPT !.pc = "exited", !.exitCode = 0]

\* flag.Parse(); without -config the message and the usage are printed and
\* main returns
MainFlag ==
    /\ main.pc = "flag"
    /\ ~exited
    /\ IF main.configFileFlag = ""
       THEN /\ main' = Returned([main EXCEPT !.usage = TRUE])
            /\ exited' = TRUE
       ELSE /\ main' = [main EXCEPT !.pc = "LoadAppConfig"]
            /\ UNCHANGED exited
    /\ UNCHANGED <<routingVars, handler, shutdown, listener, wg, acceptLoop,
                   stopCall, done>>

\* config.LoadAppConfig(configFileFlag) returns the configuration or an error
MainLoadAppConfig(ok) ==
    /\ main.pc = "LoadAppConfig"
    /\ ~exited
    /\ IF ok
       THEN /\ main' = [main EXCEPT !.pc = "AddBackend"]
            /\ UNCHANGED exited
       ELSE /\ main' = Fatal(main, ErrConfig)
            /\ exited' = TRUE
    /\ UNCHANGED <<routingVars, handler, shutdown, listener, wg, acceptLoop,
                   stopCall, done>>

\* lib.NewLoadBalancer, and lb.AddBackend for every address of the
\* configuration, in order; no other goroutine runs yet
MainAddBackend ==
    /\ main.pc = "AddBackend"
    /\ ~exited
    /\ backends' = [i \in 1..NumBackends |-> i]
    /\ main' = [main EXCEPT !.pc = "MakeServerTLSConfig"]
    /\ UNCHANGED <<rlVars, connections, lbMu, frame, histVars, handler, shutdown,
                   listener, wg, acceptLoop, stopCall, done, exited>>

\* config.MakeServerTLSConfig returns the TLS options or an error
MainMakeServerTLSConfig(ok) ==
    /\ main.pc = "MakeServerTLSConfig"
    /\ ~exited
    /\ IF ok
       THEN /\ main' = [main EXCEPT !.pc = "NewServer"]
            /\ UNCHANGED exited
       ELSE /\ main' = Fatal(main, ErrTLSConfig)
            /\ exited' = TRUE
    /\ UNCHANGED <<routingVars, handler, shutdown, listener, wg, acceptLoop,
                   stopCall, done>>

\* server.NewServer(serverConfig) returns the server, or an error where the
\* configuration lacks a value
MainNewServer(ok) ==
    /\ main.pc = "NewServer"
    /\ ~exited
    /\ IF ok
       THEN /\ main' = [main EXCEPT !.pc = "Start"]
            /\ UNCHANGED exited
       ELSE /\ main' = Fatal(main, ErrNewServer)
            /\ exited' = TRUE
    /\ UNCHANGED <<routingVars, handler, shutdown, listener, wg, acceptLoop,
                   stopCall, done>>

\* lbServer.Start() returns nil; main waits for SIGINT or SIGTERM
MainStart ==
    /\ main.pc = "Start"
    /\ Start
    /\ main' = [main EXCEPT !.pc = "signal"]

\* lbServer.Start() returns the error of tls.Listen
MainStartError ==
    /\ main.pc = "Start"
    /\ ~exited
    /\ main' = Fatal(main, ErrListen)
    /\ exited' = TRUE
    /\ UNCHANGED <<routingVars, handler, shutdown, listener, wg, acceptLoop,
                   stopCall, done>>

\* <-sigChan: the signal arrives and main calls lbServer.Stop()
MainSignal ==
    /\ main.pc = "signal"
    /\ Stop
    /\ main' = [main EXCEPT !.pc = "Stop"]

\* lbServer.Stop() has returned: log.Fatal(err), or "Server stopped." and
\* main returns
MainStopped ==
    /\ main.pc = "Stop"
    /\ ~exited
    /\ stopCall.pc = "returned"
    /\ main' = IF stopCall.err # Nil THEN Fatal(main, stopCall.err)
                                     ELSE Returned(main)
    /\ exited' = TRUE
    /\ UNCHANGED <<routingVars, handler, shutdown, listener, wg, acceptLoop,
                   stopCall, done>>

\* the accept loop's error path; log.Fatalf ends the process as log.Fatal
\* does
MainAcceptRetry ==
    /\ AcceptRetry
    /\ main' = IF exited' THEN Fatal(main, acceptLoop.err) ELSE main

\* an error of handleConnection passed to log.Fatalf
HandlerReturns_fatal(t) ==
    /\ handler[t].pc = "return"
    /\ HandlerDone(t)
    /\ main' = IF handler[t].err # Nil THEN Fatal(main, handler[t].err) ELSE main

\* handleConnection returns: its error, if any, is logged, and the goroutine
\* ends
HandlerReturns(t) ==
    /\ handler[t].pc = "return"
    /\ HandlerDone(t)
    /\ UNCHANGED main

\* an open listener fails at most MaxFaults times in a row
NextMain ==
    \/ MainFlag
    \/ \E ok \in BOOLEAN : MainLoadAppConfig(ok)
    \/ MainAddBackend
    \/ \E ok \in BOOLEAN : MainMakeServerTLSConfig(ok)
    \/ \E ok \in BOOLEAN : MainNewServer(ok)
    \/ MainStart
    \/ MainStartError
    \/ MainSignal
    \/ MainStopped
    \/ AcceptLoopFor /\ UNCHANGED main
    \/ \E t \in Tasks : Accept(t) /\ UNCHANGED main
    \/ /\ listener = "open" => acceptLoop.retryCount < MaxFaults
       /\ AcceptError
       /\ UNCHANGED main
    \/ MainAcceptRetry
    \/ AcceptWake /\ UNCHANGED main
    \/ \E t \in Tasks, ok \in BOOLEAN : ~exited /\ Handshake(t, ok)
    \/ \E t \in Tasks, clientCert \in Certificates \cup {NoCertificate} :
            ~exited /\ GetClientCertificate(t, clientCert)
    \/ \E t \in Tasks : ~exited /\ ValidateCommonName(t)
    \/ \E t \in Tasks : ~exited /\ AuthorizeClient(t)
    \/ \E t \in Tasks : ~exited /\ HandlerRoute(t)
    \/ \E t \in Tasks : ~exited /\ Routing(t)
    \/ \E t \in Tasks : ~exited /\ HandlerRouted(t)
    \/ \E t \in Tasks : HandlerReturns(t)
    \/ StopClose /\ UNCHANGED main
    \/ WaitReturns /\ UNCHANGED main
    \/ StopDone /\ UNCHANGED main
    \/ StopTimeout /\ UNCHANGED main
    \/ TickShutdown /\ UNCHANGED main

SpecMain == InitMain /\ [][NextMain]_vars

\* the connection task next to the one followed
Neighbour ==
    CHOOSE t \in Tasks \ {Relayed} : \A u \in Tasks \ {Relayed} : t <= u

\* the two connection tasks followed
Served == {Relayed, Neighbour}

\* the program while it serves: main has started the server and waits for a
\* signal, the accept loop runs, and connections are handed to the two tasks
\* followed
NextServing ==
    \/ MainStart
    \/ AcceptLoopFor /\ UNCHANGED main
    \/ \E t \in Served : Accept(t) /\ UNCHANGED main
    \/ /\ acceptLoop.retryCount < MaxFaults
       /\ AcceptError
       /\ UNCHANGED main
    \/ MainAcceptRetry
    \/ AcceptWake /\ UNCHANGED main
    \/ \E t \in Served, ok \in BOOLEAN : ~exited /\ Handshake(t, ok)
    \/ \E t \in Served, clientCert \in Certificates \cup {NoCertificate} :
            ~exited /\ GetClientCertificate(t, clientCert)
    \/ \E t \in Served : ~exited /\ ValidateCommonName(t)
    \/ \E t \in Served : ~exited /\ AuthorizeClient(t)
    \/ \E t \in Served : ~exited /\ HandlerRoute(t)
    \/ \E t \in Served : ~exited /\ Routing(t)
    \/ \E t \in Served : ~exited /\ HandlerRouted(t)
    \/ \E t \in Served : HandlerReturns(t)
    \/ TickShutdown /\ UNCHANGED main

SpecServing == InitShutdown /\ [][NextServing]_vars

\* the client whose bucket is followed
Observed == CHOOSE c \in Clients : \A d \in Clients : c <= d

(* ---------------- one bucket, called sequentially ---------------------- *)
InitBucket ==
    /\ now = 0
    /\ bucketCapacity \in 0..MaxCapacity
    /\ bucketRefillRate \in 0..MaxRate
    /\ clientBuckets = [c \in {} |-> 0]
    /\ rlMu = NoTask
    /\ backends = << >>
    /\ connections = [b \in BackendIds |-> 0]
    /\ lbMu = NoTask
    /\ frame = [t \in Tasks |-> Idle]
    /\ lastCall = [op |-> "none", arg |-> 0, ret |-> FALSE]
    /\ hist = [c \in Clients |-> NoHist]
    /\ NewServer

\* rl.allowConnection(c), from rl.mu.Lock() to rl.mu.Unlock()
AllowConnection(c) ==
    /\ rlMu = NoTask
    /\ LET existed == c \in DOMAIN clientBuckets
           tb == bucketFor(clientBuckets, c, bucketCapacity, bucketRefillRate, now)
           r == allowConnection(clientBuckets, c, bucketCapacity, bucketRefillRate, now)
       IN  /\ clientBuckets' = r.buckets
           /\ lastCall' = [op |-> "allowConnection", arg |-> c, ret |-> r.ok]
           /\ hist' = [hist EXCEPT ![c] = histAllow(@, existed, tb, now, r.ok)]
    /\ UNCHANGED <<now, bucketCapacity, bucketRefillRate, rlMu, lbVars>>

\* tb.refillTokens() on c's bucket, called on its own
RefillTokens(c) ==
    /\ c \in DOMAIN clientBuckets
    /\ LET tb == clientBuckets[c]
           r == refillTokens(tb, now)
       IN  /\ clientBuckets' = [clientBuckets EXCEPT ![c] = r]
           /\ hist' = [hist EXCEPT ![c] = histRefill(@, tb, r, now)]
    /\ lastCall' = [op |-> "refillTokens", arg |-> c, ret |-> FALSE]
    /\ UNCHANGED <<now, bucketCapacity, bucketRefillRate, rlMu, lbVars>>

\* an observer opens a window on c's bucket, which is empty
OpenWindow(c) ==
    /\ c \in DOMAIN clientBuckets
    /\ clientBuckets[c].tokens = 0
    /\ hist[c].winStart # now \/ hist[c].winK # 0
    /\ hist' = [hist EXCEPT ![c].winStart = now, ![c].winK = 0]
    /\ lastCall' = [op |-> "window", arg |-> c, ret |-> FALSE]
    /\ UNCHANGED <<rlVars, lbVars>>

NextBucket ==
    \/ /\ Tick
       /\ lastCall' = [op |-> "tick", arg |-> 0, ret |-> FALSE]
       /\ UNCHANGED <<hist, srvVars>>
    \/ AllowConnection(Observed) /\ UNCHANGED srvVars
    \/ RefillTokens(Observed) /\ UNCHANGED srvVars
    \/ OpenWindow(Observed) /\ UNCHANGED srvVars

SpecBucket == InitBucket /\ [][NextBucket]_vars

\* rl.allowConnection(c), from rl.mu.Lock() to rl.mu.Unlock(), no history
\* kept
AllowConnectionOf(c) ==
    /\ rlMu = NoTask
    /\ LET r == allowConnection(clientBuckets, c, bucketCapacity, bucketRefillRate, now)
       IN  /\ clientBuckets' = r.buckets
           /\ lastCall' = [op |-> "allowConnection", arg |-> c, ret |-> r.ok]
    /\ UNCHANGED <<now, bucketCapacity, bucketRefillRate, rlMu, lbVars, hist>>

\* a second client, whose bucket is followed beside Observed's
Other == CHOOSE c \in Clients \ {Observed} : \A d \in Clients \ {Observed} : c <= d

\* calls for the two clients, one after the other in any order, the clock
\* advancing between them
NextIsolation ==
    \/ /\ Tick
       /\ lastCall' = [op |-> "tick", arg |-> 0, ret |-> FALSE]
       /\ UNCHANGED <<hist, srvVars>>
    \/ \E c \in {Observed, Other} : AllowConnectionOf(c) /\ UNCHANGED srvVars

SpecIsolation == InitBucket /\ [][NextIsolation]_vars

(* ------------- routing calls of one client, and the clock ------------- *)
\* NewLoadBalancer(bucketCapacity, bucketRefillRate), and main has
\* registered the Backends of a configuration that has none or all of them
InitTokens ==
    /\ now = 0
    /\ bucketCapacity \in 0..MaxCapacity
    /\ bucketRefillRate \in 0..MaxRate
    /\ clientBuckets = [c \in {} |-> 0]
    /\ rlMu = NoTask
    /\ backends \in {<< >>, [i \in 1..NumBackends |-> i]}
    /\ connections = [b \in BackendIds |-> 0]
    /\ lbMu = NoTask
    /\ frame = [t \in Tasks |-> Idle]
    /\ lastCall = [op |-> "none", arg |-> 0, ret |-> FALSE]
    /\ hist = [c \in Clients |-> NoHist]
    /\ NewServer

\* RouteConnection calls for the client Observed, one after the other, each
\* made by the task Relayed, the clock advancing at any point
NextTokens ==
    \/ Tick /\ UNCHANGED <<histVars, srvVars>>
    \/ \E allowed \in AllowedSets :
            RouteConnection(Relayed, Observed, allowed) /\ UNCHANGED srvVars
    \/ AllowConnectionReturn(Relayed) /\ UNCHANGED srvVars
    \/ GetBackendLock(Relayed) /\ UNCHANGED srvVars
    \/ GetBackendRange(Relayed) /\ UNCHANGED srvVars
    \/ GetBackendReturn(Relayed) /\ UNCHANGED srvVars
    \/ DialError(Relayed) /\ UNCHANGED srvVars
    \/ Dial(Relayed) /\ UNCHANGED srvVars
    \/ \E err \in {Nil, ErrTransfer} :
            TransferData(Relayed, err) /\ UNCHANGED srvVars
    \/ DeferredLock(Relayed) /\ UNCHANGED srvVars
    \/ DeferredDecrement(Relayed) /\ UNCHANGED srvVars
    \/ Return(Relayed) /\ UNCHANGED srvVars

SpecTokens == InitTokens /\ [][NextTokens]_vars

(* -------------- GetBackend called by concurrent goroutines ------------- *)
\* a goroutine between two calls, holding the allowedBackends it passes
Caller(allowed) == [Idle EXCEPT !.allowedBackends = allowed]

\* every Backend is registered, and the goroutines share one allowedBackends
InitBalance ==
    /\ now = 0
    /\ bucketCapacity = 1
    /\ bucketRefillRate = 0
    /\ clientBuckets = [c \in {} |-> 0]
    /\ rlMu = NoTask
    /\ backends = [i \in 1..NumBackends |-> i]
    /\ connections = [b \in BackendIds |-> 0]
    /\ lbMu = NoTask
    /\ \E allowed \in AllowedSets : frame = [t \in Tasks |-> Caller(allowed)]
    /\ lastCall = [op |-> "none", arg |-> 0, ret |-> FALSE]
    /\ hist = [c \in Clients |-> NoHist]
    /\ NewServer

\* goroutine t calls lb.GetBackend(allowedBackends); calls are made until a
\* counter has reached MaxCalls
GetBackendCall(t) ==
    /\ frame[t].pc = "idle"
    /\ \A b \in BackendIds : connections[b] < MaxCalls
    /\ frame' = [frame EXCEPT ![t] = [@ EXCEPT !.pc = "GetBackend"]]
    /\ UNCHANGED <<rlVars, backends, connections, lbMu, histVars>>

\* the goroutine has the Backend or the error GetBackend returned, and ends
\* without a decrement
GetBackendCallEnds(t) ==
    /\ frame[t].pc \in {"Dial", "return"}
    /\ frame' = [frame EXCEPT ![t] = Caller(frame[t].allowedBackends)]
    /\ UNCHANGED <<rlVars, backends, connections, lbMu, histVars>>

NextBalance ==
    \/ \E t \in Tasks : GetBackendCall(t) /\ UNCHANGED srvVars
    \/ \E t \in Tasks : GetBackendLock(t) /\ UNCHANGED srvVars
    \/ \E t \in Tasks : GetBackendRange(t) /\ UNCHANGED srvVars
    \/ \E t \in Tasks : GetBackendReturn(t) /\ UNCHANGED srvVars
    \/ \E t \in Tasks : GetBackendCallEnds(t) /\ UNCHANGED srvVars

SpecBalance == InitBalance /\ [][NextBalance]_vars

(* ------------- the rate limiter, called by concurrent tasks ------------ *)
\* the tokens c's bucket holds at time t, once brought up to date
tokensAt(buckets, c, capacity, refillRate, t) ==
    refillTokens(bucketFor(buckets, c, capacity, refillRate, t), t).tokens

InitAdmission ==
    /\ now = 0
    /\ bucketCapacity \in 0..MaxCapacity
    /\ bucketRefillRate \in 0..MaxRate
    /\ clientBuckets = [c \in {} |-> 0]
    /\ rlMu = NoTask
    /\ backends = << >>
    /\ connections = [b \in BackendIds |-> 0]
    /\ lbMu = NoTask
    /\ frame = [t \in Tasks |-> Idle]
    /\ lastCall = [op |-> "none", arg |-> 0, ret |-> FALSE]
    /\ hist = [c \in Clients |-> [NoHist EXCEPT !.batchK = bucketCapacity]]
    /\ NewServer

\* the clock advances between two rounds of calls
TickAdmission ==
    /\ \A t \in Tasks : frame[t].pc = "idle"
    /\ now < MaxNow
    /\ now' = now + 1
    /\ hist' = [c \in Clients |->
                    [hist[c] EXCEPT
                        !.batchK = tokensAt(clientBuckets, c, bucketCapacity,
                                            bucketRefillRate, now + 1),
                        !.batchN = 0,
                        !.batchTrue = 0]]
    /\ lastCall' = [op |-> "tick", arg |-> 0, ret |-> FALSE]
    /\ UNCHANGED <<bucketCapacity, bucketRefillRate, clientBuckets, rlMu, lbVars>>

\* the tasks inside rl.allowConnection(c)
Calling(c) == {t \in Tasks : frame[t].pc # "idle" /\ frame[t].clientID = c}

\* rl.allowConnection(c) is called: rl.mu.Lock()
AllowConnectionLock(t, c) ==
    /\ frame[t].pc = "idle"
    /\ hist[c].batchN + Cardinality(Calling(c)) < MaxCalls
    /\ free(rlMu)
    /\ rlMu' = t
    /\ frame' = [frame EXCEPT ![t] = [Idle EXCEPT !.pc = "lookup", !.clientID = c]]
    /\ hist' = [hist EXCEPT ![c].called = TRUE]
    /\ UNCHANGED <<now, bucketCapacity, bucketRefillRate, clientBuckets,
                   backends, connections, lbMu, lastCall>>

\* bucket, exists := rl.clientBuckets[clientID]
AllowConnectionLookup(t) ==
    /\ frame[t].pc = "lookup"
    /\ frame' = [frame EXCEPT ![t] =
            [@ EXCEPT !.pc = IF frame[t].clientID \in DOMAIN clientBuckets
                             THEN "takeToken" ELSE "newTokenBucket"]]
    /\ UNCHANGED <<rlVars, backends, connections, lbMu, histVars>>

\* bucket = newTokenBucket(...); rl.clientBuckets[clientID] = bucket
AllowConnectionCreate(t) ==
    /\ frame[t].pc = "newTokenBucket"
    /\ clientBuckets' = put(clientBuckets, frame[t].clientID,
                            newTokenBucket(bucketCapacity, bucketRefillRate, now))
    /\ frame' = [frame EXCEPT ![t] = [@ EXCEPT !.pc = "takeToken"]]
    /\ hist' = [hist EXCEPT ![frame[t].clientID].created = @ + 1]
    /\ UNCHANGED <<now, bucketCapacity, bucketRefillRate, rlMu,
                   backends, connections, lbMu, lastCall>>

\* return bucket.takeToken(), and the deferred rl.mu.Unlock()
AllowConnectionTake(t) ==
    /\ frame[t].pc = "takeToken"
    /\ LET c == frame[t].clientID
           r == takeToken(clientBuckets[c], now)
       IN  /\ clientBuckets' = [clientBuckets EXCEPT ![c] = r.tb]
           /\ lastCall' = [op |-> "allowConnection", arg |-> c, ret |-> r.ok]
           /\ hist' = [hist EXCEPT
                          ![c].batchN = @ + 1,
                          ![c].batchTrue = IF r.ok THEN @ + 1 ELSE @]
    /\ rlMu' = Unlock(rlMu)
    /\ frame' = [frame EXCEPT ![t] = Idle]
    /\ UNCHANGED <<now, bucketCapacity, bucketRefillRate,
                   backends, connections, lbMu>>

\* rounds of concurrent calls for one client, the clock advancing between
\* the rounds
NextAdmission ==
    \/ TickAdmission /\ UNCHANGED srvVars
    \/ \E t \in Tasks : AllowConnectionLock(t, Observed) /\ UNCHANGED srvVars
    \/ \E t \in Tasks : AllowConnectionLookup(t) /\ UNCHANGED srvVars
    \/ \E t \in Tasks : AllowConnectionCreate(t) /\ UNCHANGED srvVars
    \/ \E t \in Tasks : AllowConnectionTake(t) /\ UNCHANGED srvVars

SpecAdmission == InitAdmission /\ [][NextAdmission]_vars

\* concurrent calls for any clients, at one instant
NextClients ==
    \/ \E t \in Tasks, c \in Clients :
            AllowConnectionLock(t, c) /\ UNCHANGED srvVars
    \/ \E t \in Tasks : AllowConnectionLookup(t) /\ UNCHANGED srvVars
    \/ \E t \in Tasks : AllowConnectionCreate(t) /\ UNCHANGED srvVars
    \/ \E t \in Tasks : AllowConnectionTake(t) /\ UNCHANGED srvVars

SpecClients == InitAdmission /\ [][NextClients]_vars

(* ------------------------ claims on the bucket ------------------------- *)
Buckets == DOMAIN clientBuckets

\* C6: in a window of length dt that starts with the client's bucket empty,
\* the number K of allowConnection calls that return true is at most
\* floor(refill_rate * dt) + capacity + 1, wherever the calls fall in it.
C6_WindowBound ==
    \A c \in Buckets :
        hist[c].winStart # NoTime =>
            hist[c].winK <=
                (clientBuckets[c].refillRate * (now - hist[c].winStart))
                        \div TicksPerSecond
                    + clientBuckets[c].capacity + 1

\* the bound is reached, with tokens credited inside the window
C6_Witness ==
    \E c \in Buckets :
        /\ hist[c].winStart # NoTime
        /\ hist[c].winStart < now
        /\ hist[c].winK >= 2
        /\ hist[c].winK =
                (clientBuckets[c].refillRate * (now - hist[c].winStart))
                        \div TicksPerSecond
                    + clientBuckets[c].capacity + 1

\* C7: after every refillTokens and every takeToken, on every bucket,
\* 0 <= tokens <= capacity and 0 <= fractionalTokens < 1.
C7_BucketRange ==
    \A c \in Buckets :
        /\ 0 <= clientBuckets[c].tokens
        /\ clientBuckets[c].tokens <= clientBuckets[c].capacity
        /\ 0 <= clientBuckets[c].fractionalTokens
        /\ clientBuckets[c].fractionalTokens < TicksPerSecond

\* a refill has just filled the bucket to its capacity and kept a residue
C7_Witness ==
    \E c \in Buckets :
        /\ lastCall.op = "refillTokens"
        /\ clientBuckets[c].lastRefillTime = now
        /\ clientBuckets[c].capacity > 0
        /\ clientBuckets[c].tokens = clientBuckets[c].capacity
        /\ clientBuckets[c].fractionalTokens > 0

\* C8: while the bucket stays below its capacity, however the elapsed time T
\* is split into refillTokens calls, the whole tokens credited plus the
\* residue left equal the residue at the start plus refill_rate * T.
C8_NoCreditLost ==
    \A c \in Buckets :
        hist[c].credited * TicksPerSecond + clientBuckets[c].fractionalTokens
            = hist[c].residue0
                + clientBuckets[c].refillRate
                    * (clientBuckets[c].lastRefillTime - hist[c].since)

\* refill rate 2: two tokens credited over one second, that began with a residue
C8_Witness ==
    \E c \in Buckets :
        /\ clientBuckets[c].refillRate = 2
        /\ clientBuckets[c].lastRefillTime - hist[c].since = TicksPerSecond
        /\ hist[c].residue0 > 0
        /\ hist[c].credited = 2

\* n calls of refillTokens at the instant t
RECURSIVE refillN(_, _, _)
refillN(tb, t, n) ==
    IF n = 0 THEN tb ELSE refillN(refillTokens(tb, t), t, n - 1)

\* C9: N >= 1 calls of refillTokens with no time elapsing between them leave
\* the bucket as one call does, and a call at zero elapsed time (or with
\* refill rate 0) changes nothing.
C9_RefillIdempotent ==
    \A c \in Buckets :
        /\ \A n \in 1..MaxRepeat :
                refillN(clientBuckets[c], now, n) = refillTokens(clientBuckets[c], now)
        /\ (clientBuckets[c].lastRefillTime = now \/ clientBuckets[c].refillRate = 0)
                => refillTokens(clientBuckets[c], now) = clientBuckets[c]

\* time has elapsed and the next refill adds tokens
C9_Witness ==
    \E c \in Buckets :
        /\ clientBuckets[c].lastRefillTime < now
        /\ refillTokens(clientBuckets[c], now).tokens > clientBuckets[c].tokens

\* the step is a call of allowConnection(c)
AllowStep(c) == lastCall'.op = "allowConnection" /\ lastCall'.arg = c

\* a new bucket grants exactly its first `capacity` calls made at its creation
Exhaustion(c) ==
    (AllowStep(c) /\ (c \notin Buckets \/ hist[c].createdAt = now))
        => (lastCall'.ret <=>
                (IF c \in Buckets THEN hist[c].granted ELSE 0) < bucketCapacity)

\* the first call after a denial, 1/refill_rate seconds later or more, is
\* granted, on a bucket of capacity minCapacity or more
Recovery(c, minCapacity) ==
    (/\ AllowStep(c)
     /\ c \in Buckets
     /\ hist[c].deniedAt # NoTime
     /\ bucketRefillRate > 0
     /\ bucketCapacity >= minCapacity
     /\ (now - hist[c].deniedAt) * bucketRefillRate >= TicksPerSecond)
        => lastCall'.ret

\* C10 as claimed: a new bucket of capacity c grants exactly the first c calls
\* made with no time elapsing and denies the next; with refill rate r > 0, the
\* call made 1/r seconds or more after a denial is granted.
C10_AsClaimed ==
    [][\A c \in Clients : Exhaustion(c) /\ Recovery(c, 0)]_vars

\* C10 as amended: the same, the recovery for a capacity of 1 or more.
C10_ExhaustionRecovery ==
    [][\A c \in Clients : Exhaustion(c) /\ Recovery(c, 1)]_vars

\* a bucket emptied at its creation has granted again after a denial
C10_Witness ==
    \E c \in Buckets :
        /\ hist[c].recovered
        /\ hist[c].granted = clientBuckets[c].capacity
        /\ lastCall = [op |-> "allowConnection", arg |-> c, ret |-> TRUE]

\* C11: a bucket of capacity 0 denies every takeToken / allowConnection call,
\* for every refill rate and every amount of elapsed time.
C11_ZeroCapacityDenies ==
    bucketCapacity = 0 =>
        /\ lastCall.op = "allowConnection" => ~lastCall.ret
        /\ \A c \in Clients, t \in now..MaxNow :
              /\ ~allowConnection(clientBuckets, c,
                                  bucketCapacity, bucketRefillRate, t).ok
              /\ c \in Buckets => ~takeToken(clientBuckets[c], t).ok

\* a bucket of capacity 0 and refill rate 2 has just denied a call made more
\* than a second after its creation
C11_Witness ==
    /\ bucketCapacity = 0
    /\ bucketRefillRate = 2
    /\ lastCall = [op |-> "allowConnection", arg |-> Observed, ret |-> FALSE]
    /\ Observed \in Buckets
    /\ now - hist[Observed].createdAt > TicksPerSecond

(* -------------------- claims on concurrent admission ------------------- *)
\* C12: under any interleaving of concurrent allowConnection calls the rate
\* limiter holds at most one bucket per clientID: the bucket is created on
\* the first allowConnection for that ID, is never replaced or removed
\* afterwards, and the number of buckets equals the number of distinct
\* clientIDs seen so far.
C12_OneBucketPerClient ==
    [][/\ \A c \in Clients :
            /\ hist'[c].created <= 1
            /\ c \in DOMAIN clientBuckets' <=> hist'[c].created = 1
            /\ hist'[c].created # hist[c].created => hist[c].batchN = 0
            /\ c \in DOMAIN clientBuckets =>
                    /\ c \in DOMAIN clientBuckets'
                    /\ hist'[c].created = hist[c].created
       /\ rlMu' = NoTask =>
            /\ DOMAIN clientBuckets' = {c \in Clients : hist'[c].called}
            /\ Cardinality(DOMAIN clientBuckets') =
                    Cardinality({c \in Clients : hist'[c].called})
      ]_vars

\* every client has its bucket, made once; one client has had two calls
\* answered and a third, for the same client, holds rl.mu
C12_Witness ==
    /\ DOMAIN clientBuckets = Clients
    /\ \A c \in Clients : hist[c].created = 1
    /\ \E c \in Clients :
            /\ hist[c].batchN >= 2
            /\ \E t \in Tasks : rlMu = t /\ frame[t].clientID = c

\* C13: no token is lost or spent twice under concurrent admission: if a
\* client's bucket holds k tokens and N allowConnection calls for that
\* client run concurrently with no time elapsing, exactly min(N, k) of them
\* return true and the bucket ends with k - min(N, k) tokens.
C13_NoTokenLost ==
    \A c \in Clients :
        LET k == hist[c].batchK
            N == hist[c].batchN
        IN  /\ hist[c].batchTrue = min(N, k)
            /\ N >= 1 => clientBuckets[c].tokens = k - min(N, k)

\* a bucket of capacity 3 refilled to k = 2 tokens has answered N = 3 calls
\* of one round: two with true, and it is empty
C13_Witness ==
    \E c \in DOMAIN clientBuckets :
        /\ now > 0
        /\ clientBuckets[c].capacity = 3
        /\ hist[c].batchK = 2
        /\ hist[c].batchN = 3
        /\ hist[c].batchTrue = 2
        /\ clientBuckets[c].tokens = 0

(* --------------------- claims on the load balancer --------------------- *)
\* the RouteConnection invocations that have received b from GetBackend and
\* have not yet executed their deferred decrement
InFlight(b) ==
    {t \in Tasks :
        /\ frame[t].pc \in {"Dial", "transferData", "deferred", "decrement"}
        /\ frame[t].selectedBackend = b}

\* C1: in every reachable state, the counter of every registered Backend is
\* >= 0 and equals the number of RouteConnection invocations that have
\* received it from GetBackend and have not yet executed their deferred
\* decrement, under any interleaving of concurrent RouteConnection calls.
C1_ActiveCount ==
    \A b \in Registered :
        /\ connections[b] >= 0
        /\ connections[b] = Cardinality(InFlight(b))

\* two concurrent invocations hold the same Backend, one of them inside its
\* deferred function
C1_Witness ==
    \E b \in Registered :
        /\ connections[b] = 2
        /\ \E t \in InFlight(b) : frame[t].pc = "decrement"
        /\ \E t \in InFlight(b) : frame[t].pc = "transferData"

\* the step in which task t's GetBackend returns a Backend
GetBackendReturns(t) == frame[t].pc = "range" /\ frame'[t].pc = "Dial"

\* the positions in the registry of the Backends whose address is in allowed
Candidates(allowed) ==
    {i \in 1..Len(backends) : Address(backends[i]) \in allowed}

\* C2: whenever GetBackend(allowed) returns a Backend B, B's counter at the
\* moment of selection was minimal among the registered Backends whose
\* address is in allowed, B is the earliest registered Backend with that
\* minimum, and B's counter is incremented by exactly 1 before the call
\* returns.
C2_LeastConnections ==
    [][\A t \in Tasks :
          GetBackendReturns(t) =>
              LET B == frame'[t].selectedBackend
                  cand == Candidates(frame[t].allowedBackends)
              IN  /\ \E i \in cand :
                        /\ backends[i] = B
                        /\ \A j \in cand :
                              connections[B] <= connections[backends[j]]
                        /\ \A j \in cand :
                              j < i => connections[B] < connections[backends[j]]
                  /\ connections' = [connections EXCEPT ![B] = @ + 1]
      ]_vars

\* GetBackend has returned the second Backend of the registry to a task that
\* is allowed the first one too, which another invocation holds
C2_Witness ==
    \E t \in Tasks :
        /\ frame[t].pc = "Dial"
        /\ Len(backends) >= 2
        /\ frame[t].selectedBackend = backends[2]
        /\ Address(backends[1]) \in frame[t].allowedBackends
        /\ connections[backends[1]] = 1
        /\ connections[backends[2]] = 1

\* where a RouteConnection invocation is between GetBackend's return and the
\* end of its deferred function
Active == {"Dial", "transferData", "deferred", "decrement"}

\* C3: every RouteConnection invocation whose GetBackend call succeeded
\* decrements the chosen Backend's counter exactly once, when it returns,
\* whether the dial fails, the relay returns an error or the relay succeeds;
\* once all the invocations have returned, every Backend's counter is 0.
C3_DecrementOnce ==
    [][/\ \A t \in Tasks :
            (frame[t].pc \in Active /\ frame'[t] # frame[t]) =>
                IF frame'[t].pc \in Active
                THEN /\ frame'[t].selectedBackend = frame[t].selectedBackend
                     /\ connections' = connections
                ELSE /\ frame'[t] = Returning(frame[t].err)
                     /\ frame[t].err \in {ErrDial, ErrTransfer, Nil}
                     /\ connections' =
                            [connections EXCEPT ![frame[t].selectedBackend] = @ - 1]
       /\ (\A t \in Tasks : frame'[t].pc \notin Active) =>
                \A b \in BackendIds : connections'[b] = 0
      ]_vars

\* two invocations have returned, one after a failed dial and one after a
\* relay that succeeded, and every counter is 0 again
C3_Witness ==
    /\ \E t \in Tasks : frame[t] = Returning(ErrDial)
    /\ \E t \in Tasks : frame[t] = Returning(Nil)
    /\ \A b \in BackendIds : connections[b] = 0

\* the step in which task t's GetBackend returns, with a Backend or an error
GetBackendEnds(t) ==
    /\ frame[t].pc \in {"GetBackend", "range"}
    /\ frame'[t].pc \notin {"GetBackend", "range"}

\* C4: GetBackend on a registry with no Backend returns
\* ErrNoRegisteredBackends for every allowed set; on a non-empty registry
\* where no registered address is in allowed it returns
\* ErrNoAvailableBackend; in both cases no counter changes and the
\* registry is unchanged.
C4_GetBackendErrors ==
    [][\A t \in Tasks :
          GetBackendEnds(t) =>
              LET none == Candidates(frame[t].allowedBackends) = {}
              IN  /\ Len(backends) = 0 =>
                        frame'[t] = Returning(ErrNoRegisteredBackends)
                  /\ (Len(backends) > 0 /\ none) =>
                        frame'[t] = Returning(ErrNoAvailableBackend)
                  /\ (Len(backends) > 0 /\ ~none) => frame'[t].pc = "Dial"
                  /\ frame'[t].pc = "return" =>
                        /\ connections' = connections
                        /\ backends' = backends
      ]_vars

\* one call has returned ErrNoRegisteredBackends and, a Backend registered
\* since, another has returned ErrNoAvailableBackend
C4_Witness ==
    /\ \E t \in Tasks : frame[t] = Returning(ErrNoRegisteredBackends)
    /\ \E t \in Tasks : frame[t] = Returning(ErrNoAvailableBackend)
    /\ Len(backends) > 0

\* the rate limiter's answer to the call task t is making
Denied(t) ==
    ~allowConnection(clientBuckets, frame[t].clientID,
                     bucketCapacity, bucketRefillRate, now).ok

\* C5: when the rate limiter denies a client, RouteConnection returns
\* ErrRateLimitReached without calling GetBackend and without dialing, and
\* leaves every Backend's counter and the registry unchanged.
C5_RateLimitedReturn ==
    [][\A t \in Tasks :
          /\ (frame[t].pc = "allowConnection" /\ frame'[t] # frame[t]) =>
                IF Denied(t)
                THEN /\ frame'[t] = Returning(ErrRateLimitReached)
                     /\ connections' = connections
                     /\ backends' = backends
                     /\ lbMu' = lbMu
                ELSE frame'[t].pc = "GetBackend"
          /\ (frame'[t] = Returning(ErrRateLimitReached) /\ frame'[t] # frame[t]) =>
                frame[t].pc = "allowConnection"
      ]_vars

\* a client whose first connection is still routed has its second one
\* rejected; the Backend's counter still counts the first
C5_Witness ==
    \E t, u \in Tasks :
        /\ frame[t] = Returning(ErrRateLimitReached)
        /\ frame[u].pc = "transferData"
        /\ connections[frame[u].selectedBackend] = 1
        /\ Cardinality(DOMAIN clientBuckets) = 1

\* the step in which task t's AddBackend stores the registry and returns
AddBackendEnds(t) == frame[t].pc = "append" /\ frame'[t].pc # "append"

\* C14: N concurrent AddBackend calls, also interleaved with concurrent
\* GetBackend calls, leave the registry containing each added Backend
\* exactly once: every call makes it one longer and no append is lost.
C14_NoAppendLost ==
    [][/\ \A t \in Tasks :
            AddBackendEnds(t) => backends' = Append(backends, frame[t].backend)
       /\ (\A t \in Tasks : ~AddBackendEnds(t)) => backends' = backends
       /\ \A i, j \in 1..Len(backends') :
            backends'[i] = backends'[j] => i = j
      ]_vars

\* two AddBackend calls have returned and the registry holds both Backends,
\* while one task scans it inside GetBackend and another relays
C14_Witness ==
    /\ backends = <<1, 2>>
    /\ \E t \in Tasks : frame[t].pc = "range" /\ frame[t].idx = 2
    /\ \E t \in Tasks : frame[t].pc = "transferData"

(* -------------------------- claims on the server ----------------------- *)
\* the step in which task t's RouteConnection dials
Dials(t) == frame[t].address = "" /\ frame'[t].address # ""

\* C15: RouteConnection only ever dials the address of the Backend returned
\* by its own GetBackend call, and that address is both registered and a
\* member of the allowed set passed to the call; for a server connection
\* this set is exactly the ACL entry of the connection's derived clientID,
\* so a client is never forwarded to a Backend not listed for it.
C15_DialsAllowedBackend ==
    [][\A t \in Tasks :
          Dials(t) =>
              LET id == GenerateClientID(handler[t].clientCert.cn,
                                         handler[t].clientCert.serial)
              IN  /\ frame[t].pc = "Dial"
                  /\ frame'[t].address = Address(frame[t].selectedBackend)
                  /\ frame[t].selectedBackend \in Registered
                  /\ frame'[t].address \in frame[t].allowedBackends
                  /\ id \in DOMAIN ClientBackendACL
                  /\ frame[t].allowedBackends = ClientBackendACL[id]
      ]_vars

\* alice, whose ACL entry names one registered address, is forwarded to it
\* although bob is on that Backend already and the other Backend is free
C15_Witness ==
    \E t, u \in Tasks :
        /\ frame[t].pc = "transferData"
        /\ frame[u].pc = "transferData"
        /\ handler[t].clientCert.cn = "alice"
        /\ handler[u].clientCert.cn = "bob"
        /\ frame[t].address = "127.0.0.1:5001"
        /\ frame[u].address = "127.0.0.1:5001"
        /\ connections[2] = 0

\* where handleConnection is before it calls RouteConnection
BeforeRouting ==
    {"Handshake", "GetClientCertificate", "ValidateCommonName", "AuthorizeClient"}

\* the steps of handleConnection, in their order
HandlerOrder ==
    {<<"idle", "Handshake">>,
     <<"Handshake", "GetClientCertificate">>,
     <<"GetClientCertificate", "ValidateCommonName">>,
     <<"ValidateCommonName", "AuthorizeClient">>,
     <<"AuthorizeClient", "RouteConnection">>,
     <<"RouteConnection", "routing">>,
     <<"routing", "return">>,
     <<"return", "idle">>}
        \cup {<<pc, "return">> : pc \in BeforeRouting}

Authenticated == {"AuthorizeClient", "RouteConnection", "routing"}

\* C17: a client passes CN authentication only if its certificate's CN is
\* present in allowed_clients and mapped to true; a CN that is absent,
\* empty or mapped to false is rejected with an authentication error and
\* never reaches authorization or routing.
C17_AllowedMeansTrue ==
    \A t \in Tasks :
        handler[t].pc \in Authenticated =>
            /\ handler[t].clientCert.cn \in DOMAIN AllowedClients
            /\ AllowedClients[handler[t].clientCert.cn]

(* -------------------------- claims on shutdown ------------------------- *)
\* Stop has been called and has not returned
Stopping == stopCall.pc \in {"Close", "select"}

\* C18: Stop returns within one second of being called, with either nil or
\* the shutdown-timeout error; in both cases, when it returns the shutdown
\* flag is set and the listener is closed, and no Accept succeeds afterwards.
C18_StopReturns ==
    [][/\ Stopping' => ~exited' /\ stopCall'.elapsed <= TicksPerSecond
       /\ stopCall'.pc = "returned" =>
            /\ stopCall'.elapsed <= TicksPerSecond
            /\ stopCall'.err \in {Nil, ErrShutdownTimeout}
            /\ shutdown'
            /\ listener' = "closed"
       /\ stopCall.pc = "returned" =>
            \A t \in Tasks : handler[t].pc = "idle" => handler'[t].pc = "idle"
      ]_vars

\* the step in which Stop returns
StopReturns == stopCall.pc = "select" /\ stopCall'.pc = "returned"

\* C19: Stop returns the shutdown-timeout error only if at least one
\* spawned per-connection task is still running at the one-second deadline;
\* when no per-connection task is in flight, Stop returns nil.
C19_TimeoutOnlyWithConnections ==
    [][StopReturns =>
          (stopCall'.err = ErrShutdownTimeout =>
                \E t \in Tasks : handler[t].pc # "idle")
      ]_vars

\* the step the accept loop takes on the error Accept returned
AcceptErrorHandled ==
    acceptLoop.pc = "err" /\ (acceptLoop' # acceptLoop \/ exited' # exited)

\* C20: when Accept fails because shutdown closed the listener, the shutdown
\* flag being raised already, the accept loop exits without entering the
\* retry path: without incrementing the retry counter, without sleeping the
\* retry delay and without ever aborting the process, whatever the retry
\* counter's value.
C20_NoRetryOnShutdown ==
    [][(AcceptErrorHandled /\ acceptLoop.err = ErrClosed /\ shutdown) =>
          /\ acceptLoop'.pc = "done"
          /\ acceptLoop'.retryCount = acceptLoop.retryCount
          /\ ~exited'
      ]_vars

\* a routed connection whose relay is in progress: RouteConnection is in
\* transferData
Relaying(t) == handler[t].pc = "routing" /\ frame[t].pc = "transferData"

\* the shutdown has finished: Stop has returned, or the process has exited
\* after the signal
ShutdownFinished == stopCall.pc = "returned" \/ (exited /\ shutdown)

\* C21: once the shutdown has finished (Stop has returned, or the process
\* has exited after the signal), no routed connection's relay is still in
\* progress
C21_NoRelayCutOff ==
    ShutdownFinished => \A t \in Tasks : ~Relaying(t)

\* the accept loop ends the process: log.Fatalf
Aborts == ~exited /\ exited' /\ acceptLoop.pc = "err"

\* C22: the accept loop aborts the process only on an Accept error met with
\* the retry counter at 5, which is the sixth failure in a row; each of the
\* five failures before it adds one to the counter and sleeps one second
\* before the loop goes on, and every connection accepted sets the counter
\* back to 0
C22_AbortOnSixthFailure ==
    [][/\ Aborts =>
            /\ acceptLoop.retryCount = retryLimit
            /\ acceptLoop.failures = retryLimit + 1
       /\ (acceptLoop.pc = "err" /\ acceptLoop' # acceptLoop
                /\ acceptLoop.failures <= retryLimit) =>
            /\ ~exited'
            /\ acceptLoop.retryCount = acceptLoop.failures - 1
            /\ acceptLoop'.retryCount = acceptLoop.retryCount + 1
            /\ acceptLoop'.pc = "Sleep"
            /\ acceptLoop'.sleep = TicksPerSecond
       /\ (acceptLoop.pc = "Sleep" /\ acceptLoop'.pc # "Sleep") =>
            /\ acceptLoop.sleep = 0
            /\ acceptLoop'.pc = "for"
            /\ acceptLoop'.retryCount = acceptLoop.retryCount
       /\ (acceptLoop.pc = "Accept" /\ acceptLoop'.pc = "for") =>
            /\ acceptLoop'.retryCount = 0
            /\ acceptLoop'.failures = 0
      ]_vars

\* the sixth fault in a row of an open listener has ended the process
C22_Witness ==
    /\ exited
    /\ ~shutdown
    /\ acceptLoop.err = ErrAccept
    /\ acceptLoop.failures = retryLimit + 1
    /\ acceptLoop.retryCount = retryLimit

(* ----------------------- claims on the streams ------------------------- *)
\* what handleConnection returns on its paths, as RouteConnection returns
\* it; handleConnection wraps it with %w
HandlerErrors ==
    {ErrHandshake, ErrNoCertificate, ErrNoCommonName, ErrNotAllowed,
     ErrNotListed, ErrRateLimitReached, ErrNoAvailableBackend, ErrDial,
     ErrTransfer, Nil}

\* the values RouteConnection returns after a successful dial
AfterDial == {ErrTransfer, Nil}

\* C23: a per-connection task ends only after handleConnection has
\* returned, and handleConnection returns, on each of its paths, with the
\* accepted client stream closed; RouteConnection returns with the backend
\* stream closed whenever its dial had succeeded, and with none opened
\* otherwise
C23_StreamsClosed ==
    [][\A t \in Tasks :
        /\ (handler[t].pc # "idle" /\ handler'[t].pc = "idle") =>
                /\ handler[t].pc = "return"
                /\ handler[t].clientConn = "closed"
        /\ (handler[t].pc # "return" /\ handler'[t].pc = "return") =>
                /\ handler[t].clientConn = "open"
                /\ handler'[t].clientConn = "closed"
                /\ handler'[t].err \in HandlerErrors
        /\ (frame[t].pc # "return" /\ frame'[t].pc = "return") =>
                IF frame'[t].err \in AfterDial
                THEN frame[t].backendConn = "closed"
                ELSE frame[t].backendConn = "nil"
      ]_vars

\* one task's RouteConnection is returning after a relay error, its backend
\* stream closed and the counter about to be decremented, while another
\* task's handleConnection has returned for a client missing from the ACL,
\* with its client stream closed
C23_Witness ==
    \E t, u \in Tasks :
        /\ handler[t].pc = "routing"
        /\ handler[t].clientConn = "open"
        /\ frame[t].pc = "decrement"
        /\ frame[t].err = ErrTransfer
        /\ frame[t].backendConn = "closed"
        /\ handler[u].pc = "return"
        /\ handler[u].err = ErrNotListed
        /\ handler[u].clientConn = "closed"

\* the variables of the server outside the connection tasks
Supervisor == <<acceptLoop, shutdown, listener, stopCall, done, exited, main>>

\* task t's handleConnection returns an error, or its goroutine ends
\* after having logged one
ErrorIn(t) ==
    \/ /\ handler[t].pc # "return"
       /\ handler'[t].pc = "return"
       /\ handler'[t].err # Nil
    \/ /\ handler[t].pc = "return"
       /\ handler[t].err # Nil
       /\ handler'[t].pc = "idle"

\* C24: a step in which a connection task's handleConnection returns an
\* error, or in which the task ends after it, leaves the accept loop and its
\* retry counter as they are, does not end the process, and changes nothing
\* of any other connection task
C24_ErrorsStayInTask ==
    [][\A t \in Tasks :
        ErrorIn(t) =>
            /\ UNCHANGED Supervisor
            /\ \A u \in Tasks \ {t} :
                    /\ handler'[u] = handler[u]
                    /\ frame'[u] = frame[u]
      ]_vars

\* a task's handleConnection has returned a dial error while the accept
\* loop, one fault counted, sleeps before it goes on, and another task
\* relays
C24_Witness ==
    \E t, u \in Tasks :
        /\ handler[t].pc = "return"
        /\ handler[t].err = ErrDial
        /\ Relaying(u)
        /\ acceptLoop.pc = "Sleep"
        /\ acceptLoop.retryCount = 1
        /\ ~shutdown
        /\ ~exited

(* ------------------------ claims on the relay -------------------------- *)
\* transferData is running in a task with frame f
InTransferData(f) == f.pc \in {"transferData", "err1", "err2"}

\* C25: transferData returns only once both copies have ended; the end of
\* one copy, by EOF or by an error, changes nothing of the other, which goes
\* on copying until it ends itself, and a copy that ends is never held up by
\* errChan
C25_BothDirections ==
    [][\A t \in Tasks :
        LET f == frame[t]
            g == frame'[t]
        IN  /\ (InTransferData(f) /\ ~InTransferData(g)) =>
                    /\ f.fromBackend = "done"
                    /\ f.toBackend = "done"
                    /\ g.pc = "deferred"
            /\ (f.fromBackend = "copying" /\ g.fromBackend # "copying") =>
                    /\ g.fromBackend = "done"
                    /\ g.toBackend = f.toBackend
                    /\ g.errToBackend = f.errToBackend
            /\ (f.toBackend = "copying" /\ g.toBackend # "copying") =>
                    /\ g.toBackend = "done"
                    /\ g.fromBackend = f.fromBackend
                    /\ g.errFromBackend = f.errFromBackend
            /\ (f.fromBackend = "copying" \/ f.toBackend = "copying") =>
                    Len(f.errChan) < ErrChanCap
      ]_vars

\* the copy from the backend has failed on a reset and transferData has
\* received its error, while the copy to the backend goes on
C25_Witness ==
    \E t \in Tasks :
        /\ frame[t].pc = "err2"
        /\ frame[t].fromBackend = "done"
        /\ frame[t].errFromBackend = Errorf(Context("fromBackend"), ErrReset)
        /\ frame[t].err1 = frame[t].errFromBackend
        /\ frame[t].toBackend = "copying"

\* the errors a goroutine of direction dir may send
Sendable(dir) ==
    {Nil} \cup {Errorf(Context(dir), err) : err \in CopyResults \ {Nil}}

\* C26: what transferData returns is nil exactly when both copies ended
\* without error, and else the join of the errors of the copies that failed,
\* each under the context of its direction; RouteConnection returns that
\* value as it is
C26_JoinedResult ==
    [][\A t \in Tasks :
        LET f == frame[t]
            g == frame'[t]
        IN  /\ (InTransferData(f) /\ ~InTransferData(g)) =>
                    /\ f.errFromBackend \in Sendable("fromBackend")
                    /\ f.errToBackend \in Sendable("toBackend")
                    /\ g.err = Nil <=>
                            (f.errFromBackend = Nil /\ f.errToBackend = Nil)
                    /\ g.err \in {Join(f.errFromBackend, f.errToBackend),
                                  Join(f.errToBackend, f.errFromBackend)}
            /\ (f.pc \in {"deferred", "decrement"}
                    /\ g.pc \in {"decrement", "return"}) =>
                    g.err = f.err
      ]_vars

\* both copies have failed, the one to the backend first, and RouteConnection
\* is returning the two errors joined in that order
C26_Witness ==
    \E t \in Tasks :
        /\ frame[t].pc = "decrement"
        /\ frame[t].fromBackend = "done"
        /\ frame[t].toBackend = "done"
        /\ frame[t].err = Join(Errorf(Context("toBackend"), ErrPipe),
                               Errorf(Context("fromBackend"), ErrReset))

\* the copy of direction dir ended because the peer closed: EOF, or a reset
PeerClosed(f, dir) ==
    /\ f[dir] = "done"
    /\ IF dir = "fromBackend"
       THEN f.errFromBackend \in {Nil, Errorf(Context(dir), ErrReset)}
       ELSE f.errToBackend \in {Nil, Errorf(Context(dir), ErrReset)}

\* C27: when both copies of a relay ended because the peer closed, by EOF or
\* by a reset, transferData returns nil, which RouteConnection returns as it
\* is, and handleConnection returns nil with it
C27_PeerCloseIsNoError ==
    [][\A t \in Tasks :
        /\ (/\ InTransferData(frame[t])
            /\ ~InTransferData(frame'[t])
            /\ PeerClosed(frame[t], "fromBackend")
            /\ PeerClosed(frame[t], "toBackend")) =>
                frame'[t].err = Nil
        /\ (frame[t].pc \in {"deferred", "decrement"}
                /\ frame'[t].pc \in {"decrement", "return"}) =>
                frame'[t].err = frame[t].err
        /\ (handler[t].pc = "routing" /\ handler'[t].pc = "return") =>
                handler'[t].err = frame[t].err
      ]_vars

(* ---------------------- claims on the clients' buckets ----------------- *)
\* the bucket of client d is the same before and after the step: present or
\* not, and with the same tokens, residue and refill time
SameBucket(d) ==
    /\ (d \in DOMAIN clientBuckets') <=> (d \in DOMAIN clientBuckets)
    /\ d \in DOMAIN clientBuckets => clientBuckets'[d] = clientBuckets[d]

\* C28: a call of allowConnection for client c leaves the bucket of every
\* other client as it is, and it is denied only when c's own bucket,
\* brought up to date, holds no token: whatever calls were made for the
\* others
C28_ClientIsolation ==
    [][\A c \in Clients :
        AllowConnectionOf(c) =>
            /\ \A d \in Clients \ {c} : SameBucket(d)
            /\ lastCall'.ret <=>
                    tokensAt(clientBuckets, c, bucketCapacity,
                             bucketRefillRate, now) > 0
      ]_vars

\* Observed is over its rate: its bucket is empty and its last call, at this
\* instant, was denied; the call that followed, for Other, was granted from
\* a bucket made earlier and refilled since
C28_Witness ==
    /\ Observed \in DOMAIN clientBuckets
    /\ Other \in DOMAIN clientBuckets
    /\ clientBuckets[Observed].tokens = 0
    /\ clientBuckets[Observed].lastRefillTime = now
    /\ bucketCapacity > 1
    /\ bucketRefillRate > 0
    /\ now > 0
    /\ lastCall = [op |-> "allowConnection", arg |-> Other, ret |-> TRUE]
    /\ clientBuckets[Other].tokens > 0

(* ------------------------ claims on the program ------------------------ *)
\* the errors the process may end on with a non-zero exit code: of the
\* configuration, of the listener's bring-up, and of Accept once the retries
\* are used up
FatalErrors == {ErrConfig, ErrTLSConfig, ErrNewServer, ErrListen, ErrAccept, ErrClosed}

\* C29: the process ends with a non-zero exit code only on an error of the
\* configuration, of the listener's bring-up or of the accept loop; where
\* Stop returned the timeout error after the signal, it ends as on a
\* shutdown without error, with exit code 0
C29_TimeoutNotFatal ==
    exited =>
        /\ main.exitCode # 0 => main.err \in FatalErrors
        /\ (main.pc = "exited" /\ stopCall.pc = "returned"
                /\ stopCall.err = ErrShutdownTimeout
                /\ main.err \notin FatalErrors) =>
                main.exitCode = 0

\* C30: started without -config, the process prints the usage and ends with
\* a non-zero exit code, the configuration not loaded and the listener not
\* started
C30_NoFlagExitsNonZero ==
    (exited /\ main.configFileFlag = "") =>
        /\ main.usage
        /\ main.exitCode # 0
        /\ listener = "nil"
        /\ backends = << >>
        /\ acceptLoop = NotAccepting

(* ------------------------ claims on the mutexes ------------------------ *)
\* task t holds lb.mu: it is inside GetBackend's scan, AddBackend's append
\* or the deferred function
HoldsRegistry(t) == frame[t].pc \in {"range", "append", "decrement"}

\* the step is an increment or a decrement of a counter made by task t
ChangesCounter(t) ==
    /\ frame[t].pc \in {"range", "decrement"}
    /\ frame'[t].pc \in {"Dial", "return"}
    /\ connections' =
            IF frame[t].pc = "range"
            THEN incrementConnections(connections, frame[t].selectedBackend)
            ELSE decrementConnections(connections, frame[t].selectedBackend)

\* C31: every change of a counter on the routing path is made by the task
\* that holds lb.mu; while a task is inside GetBackend's scan no counter
\* changes, so that the counter of the Backend it returns is, after the
\* increment, the value read during the scan plus 1; and the decrement has
\* taken effect in the state in which RouteConnection returns.
C31_CountersUnderMutex ==
    [][/\ connections' # connections =>
              \E t \in Tasks : lbMu = t /\ HoldsRegistry(t) /\ ChangesCounter(t)
       /\ \A t \in Tasks :
              /\ frame[t].pc = "range" /\ frame'[t].pc = "range" =>
                    /\ lbMu = t
                    /\ connections' = connections
              /\ GetBackendReturns(t) =>
                    connections'[frame[t].selectedBackend] =
                        frame[t].leastConnectionCount + 1
              /\ frame[t].pc = "decrement" /\ frame'[t].pc = "return" =>
                    /\ connections'[frame[t].selectedBackend] =
                            connections[frame[t].selectedBackend] - 1
                    /\ lbMu' = NoTask
      ]_vars

\* a task has finished its scan and is about to increment the Backend's
\* counter, read as 1, while another task that holds the same Backend waits
\* for lb.mu to decrement it
C31_Witness ==
    \E t, u \in Tasks :
        /\ lbMu = t
        /\ frame[t].pc = "range"
        /\ frame[t].idx > Len(backends)
        /\ frame[t].selectedBackend # NoBackend
        /\ frame[t].leastConnectionCount = 1
        /\ frame[u].pc = "deferred"
        /\ frame[u].selectedBackend = frame[t].selectedBackend

\* task t waits for a peer: the TLS handshake with the client, the dial of
\* the Backend, or the relay
Stalled(t) ==
    \/ handler[t].pc = "Handshake"
    \/ frame[t].pc \in {"Dial", "transferData", "err1", "err2"}

\* task t holds a mutex
Holds(t) == lbMu = t \/ rlMu = t

\* the step of task t that its position calls for can be taken at once
CanStep(t) ==
    \/ ENABLED (AllowConnectionReturn(t) /\ UNCHANGED srvVars)
    \/ ENABLED (GetBackendRange(t) /\ UNCHANGED srvVars)
    \/ ENABLED (GetBackendReturn(t) /\ UNCHANGED srvVars)
    \/ ENABLED (DeferredDecrement(t) /\ UNCHANGED srvVars)
    \/ ENABLED (AddBackendAppend(t) /\ UNCHANGED srvVars)

\* C32: a task that waits in the TLS handshake, the dial or the relay holds
\* neither lb.mu nor rl.mu; no task holds both; and the holder of a mutex is
\* inside allowConnection, GetBackend's scan, AddBackend or the deferred
\* function, where its next step can be taken at once, so that the tasks
\* waiting for the mutex are not held up by a stalled connection and cannot
\* deadlock.
C32_NoMutexWhileBlocked ==
    /\ \A t \in Tasks : Stalled(t) => ~Holds(t)
    /\ \A t \in Tasks : ~(lbMu = t /\ rlMu = t)
    /\ \A t \in Tasks :
            /\ rlMu = t => frame[t].pc = "allowConnection"
            /\ lbMu = t => HoldsRegistry(t)
            /\ Holds(t) => CanStep(t)

\* one task is stalled in the relay and the accept loop waits in Accept,
\* while a second task holds lb.mu inside GetBackend's scan
C32_Witness ==
    \E t, u \in Tasks :
        /\ frame[t].pc = "transferData"
        /\ acceptLoop.pc = "Accept"
        /\ lbMu = u
        /\ frame[u].pc = "range"
        /\ frame[u].idx > 1

(* ------------------- claims on the tokens of a call -------------------- *)
\* the tokens client c has at this instant: those of its bucket brought up
\* to date, or the capacity if it has no bucket yet
TokensOf(c) ==
    tokensAt(clientBuckets, c, bucketCapacity, bucketRefillRate, now)

\* the step in which task t's allowConnection returns
AllowConnectionReturns(t) ==
    frame[t].pc = "allowConnection" /\ frame'[t].pc # "allowConnection"

\* the errors RouteConnection returns after allowConnection returned true
ErrorsAfterToken ==
    {ErrNoRegisteredBackends, ErrNoAvailableBackend, ErrDial, ErrTransfer}

\* C33: a RouteConnection call that is not rate-limited takes exactly one
\* token out of the client's bucket, a rate-limited call takes none, and no
\* other step of any call changes a bucket: the token is not given back when
\* GetBackend, the dial or the relay fails.
C33_OneTokenPerCall ==
    [][/\ \A t \in Tasks :
            AllowConnectionReturns(t) =>
                LET c == frame[t].clientID
                IN  IF frame'[t].pc = "GetBackend"
                    THEN clientBuckets'[c].tokens = TokensOf(c) - 1
                    ELSE /\ frame'[t] = Returning(ErrRateLimitReached)
                         /\ clientBuckets'[c].tokens = TokensOf(c)
                         /\ TokensOf(c) = 0
       /\ clientBuckets' # clientBuckets =>
            \E t \in Tasks : AllowConnectionReturns(t)
       /\ \A t \in Tasks :
            /\ frame'[t] # frame[t]
            /\ frame'[t].pc \in {"deferred", "return"}
            /\ frame'[t].err \in ErrorsAfterToken
            => clientBuckets' = clientBuckets
      ]_vars

\* with no refill, the client's second call has returned a dial error, and
\* its bucket holds two tokens less than the capacity
C33_Witness ==
    /\ bucketRefillRate = 0
    /\ bucketCapacity > 2
    /\ frame[Relayed].pc = "return"
    /\ frame[Relayed].err = ErrDial
    /\ clientBuckets[Observed].tokens = bucketCapacity - 2

(* ------------------------ claims on the balance ------------------------ *)
\* the allowedBackends every goroutine passes
SharedAllowed == frame[Relayed].allowedBackends

\* the registered Backends that GetBackend considers for SharedAllowed
Considered == {b \in Registered : allowedFor(SharedAllowed, b)}

\* C34: with a fixed registry, every GetBackend call passing the same
\* allowedBackends and no decrement, the counters of the registered Backends
\* whose address is allowed differ pairwise by at most 1 in every reachable
\* state, however the concurrent calls interleave.
C34_Balanced ==
    /\ \A t \in Tasks : frame[t].allowedBackends = SharedAllowed
    /\ \A a, b \in Considered : connections[a] - connections[b] <= 1

\* both Backends are allowed, three calls have returned, and a fourth call
\* holds lb.mu at the end of its scan, having selected the Backend with the
\* lower counter
C34_Witness ==
    \E t \in Tasks, a, b \in Considered :
        /\ connections[a] = 2
        /\ connections[b] = 1
        /\ lbMu = t
        /\ frame[t].pc = "range"
        /\ frame[t].idx > Len(backends)
        /\ frame[t].selectedBackend = b

(* ----------------------- claims on the wait group ---------------------- *)
\* the accept-loop goroutine has been started and has not ended
AcceptLoopRuns == acceptLoop.pc \notin {"none", "done"}

\* the per-connection goroutines that have been started and have not ended
Spawned == {t \in Tasks : handler[t].pc # "idle"}

\* C35: s.wg counts the accept-loop goroutine, while it runs, and every
\* per-connection goroutine that has not ended, so that it is not zero while
\* the accept loop can still start one; once s.wg.Wait() has returned, and
\* when Stop has returned nil, the accept loop has ended and so has every
\* goroutine it started.
C35_NilMeansQuiescent ==
    /\ wg = Cardinality(Spawned) + (IF AcceptLoopRuns THEN 1 ELSE 0)
    /\ AcceptLoopRuns => wg > 0
    /\ done \/ (stopCall.pc = "returned" /\ stopCall.err = Nil) =>
            /\ acceptLoop.pc = "done"
            /\ Spawned = {}
            /\ wg = 0

\* Stop has returned nil after the accept loop, which had found the listener
\* closed once and slept, saw the flag and ended
C35_Witness ==
    /\ stopCall.pc = "returned"
    /\ stopCall.err = Nil
    /\ acceptLoop.pc = "done"
    /\ acceptLoop.failures = 1
    /\ wg = 0

\* C36: once Stop has raised the shutdown flag, no per-connection goroutine
\* is started: no step takes a task from idle to handling a connection while
\* the flag is set.
C36_NoSpawnAfterFlag ==
    [][\A t \in Tasks :
            handler[t].pc = "idle" /\ handler'[t].pc # "idle" => ~shutdown
      ]_vars


====
